---- MODULE Spec2Model ----
(***************************************************************************)
(* Model of the Anti-Virus game solver (antivirus_solver.py) and of the    *)
(* tile placement helper of problem_creator.py.                            *)
(*                                                                         *)
(* Conventions.  Board locations are 0..25 as in the source; tile indices  *)
(* (tix) are 0-based as in the source, so tile tix of a position is        *)
(* pos[tix+1].  A position is a sequence of tiles, a tile a sequence of    *)
(* locations.  Python's None is None (-1) for a location, NonePos (the     *)
(* empty sequence) for a position.                                         *)
(***************************************************************************)
EXTENDS Integers, Sequences, FiniteSets, TLC

VARIABLES
    resulting_locs,   \* self.resulting_locs : move -> table of 26 locations
    holes,            \* self.holes          : list of registered holes
    lists,            \* heap of Python list objects holding positions
    arg_ref,          \* change_pos: reference of the list passed by the caller
    pos_ref,          \* change_pos: reference held by the local name pos
    cp_input,         \* change_pos: value of the caller's list at call time
    cp_tix,           \* change_pos: argument tix
    cp_move,          \* change_pos: argument move
    to_move,          \* change_pos: local queue of tile indices
    block_size,       \* change_pos: local counter
    moved_log,        \* change_pos: tile indices popped so far, in order
    cp_ret,           \* change_pos: returned pair
    cp_pc,            \* change_pos: "idle", "call", "loop" or "done"
    initial_position, \* self.initial_position : ordered dict key -> tile
    visited_tree,     \* self.visited_tree : dict position -> father_info
    last_pos,         \* self.last_pos
    criterion_arg,    \* solve: argument stopping_criterion as passed
    stopping_criterion, \* solve: local name stopping_criterion
    distance_max,     \* solve: argument distance_max
    penalize_blocks,  \* solve: argument penalize_blocks
    to_explore,       \* solve: the queue of positions to explore
    settle_log,       \* solve: positions inserted in visited_tree, in order
    found,            \* solve: returned value
    solve_pc,         \* solve: "idle", "call", "loop", "done" or "raised"
    call,             \* the most recent call on the instance and how it ended
    kwargs,           \* set_initial_position: the keyword arguments of the last call
    ret,              \* shortest_path: the path returned by the last call
    forced_passage,   \* self.forced_passage
    df_to_explore,    \* Antivirus.hopcroft_tarjan: the stack to_explore
    df_tree,          \* Antivirus.hopcroft_tarjan: position -> father, neighbors, depth, lowpoint
    df_articulation_points, \* Antivirus.hopcroft_tarjan: positions marked True
    fp_pc,            \* compute_forced_passage_positions: "idle" or "dfs"
    graph,            \* hopcroft_tarjan: neighbour lists read by find_neighbors
    start_pos,        \* hopcroft_tarjan: argument start_pos
    ht_to_explore,    \* hopcroft_tarjan: the stack to_explore
    tree,             \* hopcroft_tarjan: vertex -> father, children, neighbours, depth, lowpoint
    articulation_points,   \* hopcroft_tarjan: vertex -> list of children
    components,       \* hopcroft_tarjan: vertex -> list of component ids
    components_to_explore, \* hopcroft_tarjan: stack of (comp_start, comp_id)
    N_comp,           \* hopcroft_tarjan: last component id given
    comp_id,          \* hopcroft_tarjan: id of the component being visited
    to_visit,         \* hopcroft_tarjan: stack of the component being visited
    ht_pc,            \* hopcroft_tarjan: "idle", "call", "first", "second", "done", "ValueError"
    observed          \* caller: the outcomes of the solve calls it has made, in order

solve_vars == <<initial_position, visited_tree, last_pos, criterion_arg,
                stopping_criterion, distance_max, penalize_blocks, to_explore,
                settle_log, found, solve_pc>>

df_vars == <<df_to_explore, df_tree, df_articulation_points, fp_pc>>

use_vars == <<call, kwargs, ret, forced_passage, df_vars>>

ht_vars == <<graph, start_pos, ht_to_explore, tree, articulation_points, components,
             components_to_explore, N_comp, comp_id, to_visit, ht_pc>>

ext_vars == <<use_vars, ht_vars, observed>>

vars == <<resulting_locs, holes, lists, arg_ref, pos_ref, cp_input, cp_tix,
          cp_move, to_move, block_size, moved_log, cp_ret, cp_pc, solve_vars, ext_vars>>

--------------------------------------------------------------------------
(* Bounds *)

\* Tiles of an input position of change_pos are placed with their central
\* spot on a location of 0..MaxLoc.
MaxLoc == 10

--------------------------------------------------------------------------
(* Basic game encoding *)

None == -1
NonePos == <<>>

\* the string "start" standing for a position in the father information of the
\* initial position
StartMarker == << <<>> >>

\* stopping criteria: the string "default", None, or a function of the position
DefaultCriterion == [kind |-> "default", tix |-> None, loc |-> None]
NoCriterion == [kind |-> "None", tix |-> None, loc |-> None]
NeverCriterion == [kind |-> "never", tix |-> None, loc |-> None]

Locations == 0..25

MoveList == <<"nw", "ne", "sw", "se">>

Range(s) == {s[k] : k \in DOMAIN s}

tilekeys == <<"rouge", "bleu", "orange", "rose", "foret", "nuit", "violet", "pomme", "jaune">>

\* variant of InitialResultingLocs: location 8 has location 4 as its "nw" neighbour
InitialResultingLocsWrap ==
    [nw |-> <<None,0,None,None,None,1,2,3,4,5,6,7,8,9,10,None,12,13,14,15,16,17,None,19,20,21>>,
     ne |-> <<None,None,None,None,None,2,3,4,5,6,7,None,9,10,11,12,13,14,None,16,17,18,19,20,21,None>>,
     sw |-> <<None,None,5,6,7,8,9,10,None,12,13,14,15,16,17,None,19,20,21,22,23,24,None,None,None,None>>,
     se |-> <<1,5,6,7,None,9,10,11,12,13,14,None,16,17,18,19,20,21,None,23,24,25,None,None,None,None>>]

InitialResultingLocs ==
    [nw |-> <<None,0,None,None,None,1,2,3,None,5,6,7,8,9,10,None,12,13,14,15,16,17,None,19,20,21>>,
     ne |-> <<None,None,None,None,None,2,3,4,5,6,7,None,9,10,11,12,13,14,None,16,17,18,19,20,21,None>>,
     sw |-> <<None,None,5,6,7,8,9,10,None,12,13,14,15,16,17,None,19,20,21,22,23,24,None,None,None,None>>,
     se |-> <<1,5,6,7,None,9,10,11,12,13,14,None,16,17,18,19,20,21,None,23,24,25,None,None,None,None>>]

\* variant of SetOneHole: the entry at the index of the hole becomes None
SetOneHoleAt(table, hole) ==
    [move \in DOMAIN table |->
        [k \in DOMAIN table[move] |->
            IF k - 1 = hole THEN None ELSE table[move][k]]]

\* set_holes: one hole; every table entry equal to the hole becomes None
SetOneHole(table, hole) ==
    [move \in DOMAIN table |->
        [k \in DOMAIN table[move] |->
            IF table[move][k] = hole THEN None ELSE table[move][k]]]

RECURSIVE SetHolesLoop(_, _)
SetHolesLoop(table, locations) ==
    IF locations = <<>> THEN table
    ELSE SetHolesLoop(SetOneHole(table, Head(locations)), Tail(locations))

\* variant of set_holes: only the first location given is treated
set_holes_first(hs, table, locations) ==
    [holes |-> hs \o locations,
     resulting_locs |-> IF locations = <<>> THEN table
                        ELSE SetOneHole(table, Head(locations))]

\* set_holes(*locations): new value of (holes, resulting_locs)
set_holes(hs, table, locations) ==
    [holes |-> hs \o locations, resulting_locs |-> SetHolesLoop(table, locations)]

--------------------------------------------------------------------------
(* 2d parametrization and tile placement *)

RECURSIVE loc2coord_loop(_, _, _)
loc2coord_loop(s, x, acc) ==
    IF s < -3 THEN acc
    ELSE IF x > 3 THEN loc2coord_loop(s - 1, -3, acc)
    ELSE loc2coord_loop(s, x + 1,
            IF 2*x - s >= -3 /\ 2*x - s <= 3 THEN Append(acc, <<x, s - x>>) ELSE acc)

\* loc2coord[loc+1] is the 2d coordinate of location loc
loc2coord == loc2coord_loop(3, -3, << <<0, 4>> >>)

\* coord2loc.get(coord): the location of a coordinate, None if there is none
coord2loc(coord) ==
    IF \E k \in DOMAIN loc2coord : loc2coord[k] = coord
    THEN (CHOOSE k \in DOMAIN loc2coord : loc2coord[k] = coord) - 1
    ELSE None

tiles ==
    [rouge  |-> << <<0,0>>, <<0,1>> >>,
     bleu   |-> << <<0,0>>, <<1,0>> >>,
     foret  |-> << <<0,0>>, <<1,1>> >>,
     rose   |-> << <<0,0>>, <<1,1>> >>,
     orange |-> << <<1,0>>, <<0,0>>, <<0,1>> >>,
     violet |-> << <<1,1>>, <<0,0>>, <<-1,1>> >>,
     pomme  |-> << <<0,1>>, <<0,0>>, <<-1,-1>> >>,
     jaune  |-> << <<0,1>>, <<0,0>>, <<1,-1>> >>,
     nuit   |-> << <<1,1>>, <<0,0>>, <<-1,-1>> >>]

allowed_orientations ==
    [rouge |-> {0}, bleu |-> {0}, foret |-> {0,1}, rose |-> {0,1}, nuit |-> {0,1},
     orange |-> {0,1,2,3}, violet |-> {0,1,2,3}, pomme |-> {0,1,2,3}, jaune |-> {0,1,2,3}]

Rotate(tup, orientation) ==
    CASE orientation = 1 -> <<tup[2], -tup[1]>>
      [] orientation = 2 -> <<-tup[1], -tup[2]>>
      [] orientation = 3 -> <<-tup[2], tup[1]>>
      [] OTHER -> tup

\* place_tile(name, orientation, location): the tile, or NonePos if out of the board
place_tile(name, orientation, location) ==
    LET tile_2d == [k \in DOMAIN tiles[name] |-> Rotate(tiles[name][k], orientation)]
        offset_2d == loc2coord[location + 1]
        tile == [k \in DOMAIN tile_2d |->
                    coord2loc(<<tile_2d[k][1] + offset_2d[1], tile_2d[k][2] + offset_2d[2]>>)]
    IN IF \E k \in DOMAIN tile : tile[k] = None THEN NonePos ELSE tile

--------------------------------------------------------------------------
(* Validity checks *)

\* variant of check_tile: the registered holes are not looked at
check_tile_no_holes(hs, tile) ==
    ~(tile = NonePos \/ \E k \in DOMAIN tile : tile[k] = None)

\* check_tile(tile)
check_tile(hs, tile) ==
    ~(tile = NonePos \/ \E k \in DOMAIN tile : tile[k] = None \/ tile[k] \in Range(hs))

\* check_overlaps(pos, ref_tix): indices (ascending) of the other tiles sharing a
\* location with tile ref_tix
check_overlaps(pos, ref_tix) ==
    LET ref_tile == pos[ref_tix + 1]
        indices == [k \in 1..Len(pos) |-> k - 1]
        hit(tix) == tix # ref_tix
                    /\ \E i \in DOMAIN ref_tile : \E j \in DOMAIN pos[tix + 1] :
                           pos[tix + 1][j] = ref_tile[i]
    IN SelectSeq(indices, hit)

\* check_initial_position on a list of tiles
check_position(hs, pos) ==
    \A k \in 1..Len(pos) :
        check_tile(hs, pos[k]) /\ Len(check_overlaps(pos, k - 1)) = 0

--------------------------------------------------------------------------
(* Tile moving function change_pos *)

\* variant of pos_copy: no copy is made, the local name is bound to the caller's list
pos_copy_alias(heap, ref) ==
    [lists |-> heap, ref |-> ref]

\* pos = pos.copy(): a new list object with the same tiles
pos_copy(heap, ref) ==
    [lists |-> Append(heap, heap[ref]), ref |-> Len(heap) + 1]

\* variant of change_pos_iter: the overlaps are looked up in the position as it
\* was before the tile is moved
change_pos_iter_stale(st, res_locs) ==
    LET tix == Head(st.to_move)
        old == st.pos[tix + 1]
        new == [k \in DOMAIN old |-> res_locs[old[k] + 1]]
        pos1 == [st.pos EXCEPT ![tix + 1] = new]
        out == \E k \in DOMAIN new : new[k] = None
    IN [pos |-> pos1,
        to_move |-> IF out THEN Tail(st.to_move)
                    ELSE Tail(st.to_move) \o check_overlaps(st.pos, tix),
        block_size |-> st.block_size + 1,
        out |-> out]

\* one iteration of the while loop on the local state
\* st = [pos, to_move, block_size]; the result adds the flag out (tile out of grid)
change_pos_iter(st, res_locs) ==
    LET tix == Head(st.to_move)
        old == st.pos[tix + 1]
        new == [k \in DOMAIN old |-> res_locs[old[k] + 1]]
        pos1 == [st.pos EXCEPT ![tix + 1] = new]
        out == \E k \in DOMAIN new : new[k] = None
    IN [pos |-> pos1,
        to_move |-> IF out THEN Tail(st.to_move)
                    ELSE Tail(st.to_move) \o check_overlaps(pos1, tix),
        block_size |-> st.block_size + 1,
        out |-> out]

RECURSIVE change_pos_loop(_, _)
change_pos_loop(st, res_locs) ==
    IF Len(st.to_move) > 0
    THEN LET st1 == change_pos_iter(st, res_locs)
         IN IF st1.out THEN [pos |-> NonePos, block_size |-> 1]
            ELSE change_pos_loop(st1, res_locs)
    ELSE [pos |-> st.pos, block_size |-> st.block_size]

\* change_pos(pos, tix, move) as a function of its arguments and of the table
change_pos(table, pos, tix, move) ==
    change_pos_loop([pos |-> pos, to_move |-> <<tix>>, block_size |-> 0], table[move])

--------------------------------------------------------------------------
(* Values of the variables of the operations that are not in use *)

\* self.forced_passage: None, or a list of positions
NoForcedPassage == [set |-> FALSE, list |-> <<>>]

NoCall == [op |-> "none", outcome |-> "none"]

\* no call has been made on the instance since its construction
UseIdle ==
    /\ call = NoCall
    /\ kwargs = <<>>
    /\ ret = <<>>
    /\ forced_passage = NoForcedPassage
    /\ df_to_explore = <<>>
    /\ df_tree = <<>>
    /\ df_articulation_points = {}
    /\ fp_pc = "idle"
    /\ observed = <<>>

\* hopcroft_tarjan (generic routine) is not running
HtIdle ==
    /\ graph = <<>>
    /\ start_pos = 0
    /\ ht_to_explore = <<>>
    /\ tree = <<>>
    /\ articulation_points = <<>>
    /\ components = <<>>
    /\ components_to_explore = <<>>
    /\ N_comp = 0
    /\ comp_id = 0
    /\ to_visit = <<>>
    /\ ht_pc = "idle"

--------------------------------------------------------------------------
(* Specification SpecMove: one call of change_pos, statement by statement *)

HoleLists == {<<>>, <<13>>, <<9, 16>>}

TileNames == <<"rouge", "foret", "orange">>

Placements(name) ==
    {place_tile(name, o, loc) : o \in allowed_orientations[name], loc \in 0..MaxLoc}
        \ {NonePos}

InputPositions(hs) ==
    {pos \in {<<a, b, c>> : a \in Placements(TileNames[1]),
                            b \in Placements(TileNames[2]),
                            c \in Placements(TileNames[3])} :
        check_position(hs, pos)}

InitMove ==
    \E hs \in HoleLists :
        LET board == set_holes(<<>>, InitialResultingLocs, hs)
        IN \E pos \in InputPositions(hs) : \E tix \in 0..(Len(pos) - 1) :
           \E move \in Range(MoveList) :
              /\ holes = board.holes
              /\ resulting_locs = board.resulting_locs
              /\ lists = <<pos>>
              /\ arg_ref = 1
              /\ pos_ref = 1
              /\ cp_input = pos
              /\ cp_tix = tix
              /\ cp_move = move
              /\ to_move = <<>>
              /\ block_size = 0
              /\ moved_log = <<>>
              /\ cp_ret = [pos |-> NonePos, block_size |-> 0]
              /\ cp_pc = "call"
              /\ initial_position = <<>>
              /\ visited_tree = <<>>
              /\ last_pos = NonePos
              /\ criterion_arg = NoCriterion
              /\ stopping_criterion = NoCriterion
              /\ distance_max = None
              /\ penalize_blocks = TRUE
              /\ to_explore = <<>>
              /\ settle_log = <<>>
              /\ found = FALSE
              /\ solve_pc = "idle"
              /\ UseIdle
              /\ HtIdle

\* lines 197-200
CpEnter ==
    /\ cp_pc = "call"
    /\ LET c == pos_copy(lists, pos_ref)
       IN /\ lists' = c.lists
          /\ pos_ref' = c.ref
    /\ to_move' = <<cp_tix>>
    /\ block_size' = 0
    /\ cp_pc' = "loop"
    /\ UNCHANGED <<resulting_locs, holes, arg_ref, cp_input, cp_tix, cp_move,
                   moved_log, cp_ret, solve_vars, ext_vars>>

CpLocal == [pos |-> lists[pos_ref], to_move |-> to_move, block_size |-> block_size]

\* lines 201-210, the moved tile stays on the grid
CpIterate ==
    /\ cp_pc = "loop"
    /\ Len(to_move) > 0
    /\ LET st1 == change_pos_iter(CpLocal, resulting_locs[cp_move])
       IN /\ ~st1.out
          /\ lists' = [lists EXCEPT ![pos_ref] = st1.pos]
          /\ to_move' = st1.to_move
          /\ block_size' = st1.block_size
    /\ moved_log' = Append(moved_log, Head(to_move))
    /\ UNCHANGED <<resulting_locs, holes, arg_ref, pos_ref, cp_input, cp_tix,
                   cp_move, cp_ret, cp_pc, solve_vars, ext_vars>>

\* lines 201-208, the moved tile steps out of the grid: return None, 1
CpStepOut ==
    /\ cp_pc = "loop"
    /\ Len(to_move) > 0
    /\ LET st1 == change_pos_iter(CpLocal, resulting_locs[cp_move])
       IN /\ st1.out
          /\ lists' = [lists EXCEPT ![pos_ref] = st1.pos]
          /\ to_move' = st1.to_move
          /\ block_size' = st1.block_size
    /\ moved_log' = Append(moved_log, Head(to_move))
    /\ cp_ret' = [pos |-> NonePos, block_size |-> 1]
    /\ cp_pc' = "done"
    /\ UNCHANGED <<resulting_locs, holes, arg_ref, pos_ref, cp_input, cp_tix, cp_move,
                   solve_vars, ext_vars>>

\* line 211: return pos, block_size
CpReturn ==
    /\ cp_pc = "loop"
    /\ Len(to_move) = 0
    /\ cp_ret' = [pos |-> lists[pos_ref], block_size |-> block_size]
    /\ cp_pc' = "done"
    /\ UNCHANGED <<resulting_locs, holes, lists, arg_ref, pos_ref, cp_input,
                   cp_tix, cp_move, to_move, block_size, moved_log, solve_vars, ext_vars>>

NextMove == CpEnter \/ CpIterate \/ CpStepOut \/ CpReturn

SpecMove == InitMove /\ [][NextMove]_vars

--------------------------------------------------------------------------
(* Properties of the move engine (SpecMove) *)

\* Position invariant: every location on the board, none a hole, no two tiles
\* sharing a location
ValidPosition(hs, pos) ==
    /\ \A k \in DOMAIN pos : \A i \in DOMAIN pos[k] :
          pos[k][i] \in Locations /\ pos[k][i] \notin Range(hs)
    /\ \A k, l \in DOMAIN pos : k # l => Range(pos[k]) \cap Range(pos[l]) = {}

\* a tile shifted by one step on the board without holes
ShiftTile(tile, move) == [k \in DOMAIN tile |-> InitialResultingLocs[move][tile[k] + 1]]

CpDone == cp_pc = "done"
CpSuccess == cp_pc = "done" /\ cp_ret.pos # NonePos
CpFailure == cp_pc = "done" /\ cp_ret.pos = NonePos

\* C1: a successful change_pos on a valid position returns a valid position
\* (all locations on the board, none on a hole, no two tiles sharing one).
C1_MoveEngineInvariant ==
    (CpSuccess /\ ValidPosition(holes, cp_input)) => ValidPosition(holes, cp_ret.pos)

C1_Witness ==
    /\ CpSuccess
    /\ ValidPosition(holes, cp_input)
    /\ cp_ret.block_size > 1
    /\ Len(holes) > 0
    /\ ValidPosition(holes, cp_ret.pos)

\* C2: in a successful result every tile is at its input locations or at its
\* input locations shifted by exactly one step in the move direction.
C2_NoTileMovedTwice ==
    CpSuccess =>
        \A k \in DOMAIN cp_input :
            \/ cp_ret.pos[k] = cp_input[k]
            \/ cp_ret.pos[k] = ShiftTile(cp_input[k], cp_move)

\* C3: the returned block_size is the number of tile indices whose locations
\* differ between the input and the returned position.
C3_BlockMoveConservation ==
    CpSuccess =>
        cp_ret.block_size = Cardinality({k \in DOMAIN cp_input : cp_ret.pos[k] # cp_input[k]})

\* the pushed block: the moved tile and, transitively, every tile one of whose
\* locations is hit by the one-step shift of a tile of the block
RECURSIVE PushedBlock(_, _, _)
PushedBlock(pos, move, block) ==
    LET hitBy(k) == Range(ShiftTile(pos[k], move)) \ {None}
        more == {l \in DOMAIN pos : \E k \in block : l # k /\ hitBy(k) \cap Range(pos[l]) # {}}
    IN IF more \subseteq block THEN block ELSE PushedBlock(pos, move, block \cup more)

BlockIsStopped(hs, pos, tix, move) ==
    \E k \in PushedBlock(pos, move, {tix + 1}) : \E c \in Range(ShiftTile(pos[k], move)) :
        c = None \/ c \in Range(hs)

\* C4: change_pos returns None exactly when a tile of the pushed block would
\* leave the board or land on a registered hole.
C4_FailureExactlyWhenBlockStopped ==
    CpDone => (cp_ret.pos = NonePos <=> BlockIsStopped(holes, cp_input, cp_tix, cp_move))

\* C5: the list passed to change_pos holds, during and after the call, exactly
\* the tiles it held before the call.
C5_InputNotModified ==
    cp_pc \in {"loop", "done"} => lists[arg_ref] = cp_input

C5_Witness ==
    /\ CpFailure
    /\ Len(moved_log) > 1
    /\ lists[pos_ref] # cp_input
    /\ lists[arg_ref] = cp_input

--------------------------------------------------------------------------
(* Solver (breadth-first tree search) *)

\* the locations 0..MaxCell are playable in the boards explored by solve
MaxCell == 12

\* largest integer passed as distance_max
MaxDistance == 2

\* truth value of a Python integer-or-None used as a condition
Truthy(x) == x # None /\ x # 0

Keys(ip) == [k \in DOMAIN ip |-> ip[k].key]

\* list(self.initial_position.values())
Values(ip) == [k \in DOMAIN ip |-> ip[k].tile]

\* list.index(key): 0-based index of the first occurrence, None if absent
IndexOf(seq, key) ==
    IF \E k \in DOMAIN seq : seq[k] = key
    THEN (CHOOSE k \in DOMAIN seq : seq[k] = key /\ \A l \in 1..(k - 1) : seq[l] # key) - 1
    ELSE None

\* father information of the initial position: ("start", 0, "start")
StartFatherInfo == [pos |-> StartMarker, tix |-> 0, move |-> "start"]

\* stopping_criterion and stopping_criterion(pos)
CriterionMet(criterion, pos) ==
    CASE criterion.kind = "target" ->
            \E i \in DOMAIN pos[criterion.tix + 1] : pos[criterion.tix + 1][i] = criterion.loc
      [] OTHER -> FALSE

\* variant of default_criterion: the target is taken to be the first tile
default_criterion_first(ip) ==
    [kind |-> "target", tix |-> 0, loc |-> 0]

\* the default stopping criterion: the default target tile has reached location 0
default_criterion(ip) ==
    [kind |-> "target", tix |-> IndexOf(Keys(ip), tilekeys[1]), loc |-> 0]

\* variant of queue_pop: to_explore.pop(), the last entry is taken
queue_pop_last(queue) ==
    [item |-> queue[Len(queue)], rest |-> SubSeq(queue, 1, Len(queue) - 1)]

\* to_explore.pop(0)
queue_pop(queue) == [item |-> Head(queue), rest |-> Tail(queue)]

\* variant of must_wait: block moves are never delayed
must_wait_never(penalize, waiting_time) == FALSE

\* penalize_blocks and waiting_time > 1
must_wait(penalize, waiting_time) == penalize /\ waiting_time > 1

\* variant of too_far: the search stops one unit of distance earlier
too_far_early(dmax, distance) == Truthy(dmax) /\ distance >= dmax

\* distance_max and distance > distance_max
too_far(dmax, distance) == Truthy(dmax) /\ distance > dmax

\* variant of tix_order: the tiles in ascending order, whatever tile moved last
tix_order_ascending(prev_tix, n) == [k \in 1..n |-> k - 1]

\* [prev_tix] + list(range(prev_tix)) + list(range(prev_tix+1, len(pos)))
tix_order(prev_tix, n) ==
    [k \in 1..n |-> IF k = 1 THEN prev_tix
                    ELSE IF k - 2 < prev_tix THEN k - 2 ELSE k - 1]

\* variant of move_order: the direction "se" is not tried
move_order_no_se(prev_tix, n) ==
    [k \in 1..(3 * n) |->
        [tix |-> tix_order(prev_tix, n)[((k - 1) \div 3) + 1],
         move |-> MoveList[((k - 1) % 3) + 1]]]

\* the (tix, move) pairs in the order of the two nested loops
move_order(prev_tix, n) ==
    [k \in 1..(4 * n) |->
        [tix |-> tix_order(prev_tix, n)[((k - 1) \div 4) + 1],
         move |-> MoveList[((k - 1) % 4) + 1]]]

\* variant of successors: the father information carries prev_tix instead of tix
successors_prev_tix(table, visited, pos, father_info, distance) ==
    LET order == move_order(father_info.tix, Len(pos))
        entry(k) ==
            LET r == change_pos(table, pos, order[k].tix, order[k].move)
            IN [pos |-> r.pos, waiting_time |-> r.block_size,
                father_info |-> [pos |-> pos, tix |-> father_info.tix, move |-> order[k].move],
                distance |-> distance + 1]
        all == [k \in DOMAIN order |-> entry(k)]
        fresh(e) == e.pos # NonePos /\ e.pos \notin DOMAIN visited
    IN SelectSeq(all, fresh)

\* the entries appended to the queue when pos is expanded
successors(table, visited, pos, father_info, distance) ==
    LET order == move_order(father_info.tix, Len(pos))
        entry(k) ==
            LET r == change_pos(table, pos, order[k].tix, order[k].move)
            IN [pos |-> r.pos, waiting_time |-> r.block_size,
                father_info |-> [pos |-> pos, tix |-> order[k].tix, move |-> order[k].move],
                distance |-> distance + 1]
        all == [k \in DOMAIN order |-> entry(k)]
        fresh(e) == e.pos # NonePos /\ e.pos \notin DOMAIN visited
    IN SelectSeq(all, fresh)

\* shortest_path on (visited_tree, last_pos); the last entry carries (None, None)
RECURSIVE shortest_path_loop(_, _, _, _, _)
shortest_path_loop(visited, pos, tix, move, path) ==
    IF pos = StartMarker THEN path
    ELSE LET f == visited[pos]
         IN shortest_path_loop(visited, f.pos, f.tix, f.move,
                               <<[pos |-> pos, tix |-> tix, move |-> move]>> \o path)

\* variant of shortest_path: path.append instead of path.insert(0, ...)
shortest_path_append(visited, last) ==
    LET path == shortest_path_loop(visited, last, None, "None", <<>>)
    IN [k \in DOMAIN path |-> path[Len(path) + 1 - k]]

shortest_path(visited, last) == shortest_path_loop(visited, last, None, "None", <<>>)

--------------------------------------------------------------------------
(* Specification SpecSolve: one call of solve, one loop iteration per step *)

SolveKeyLists == {<<"rouge", "foret">>, <<"foret", "rouge">>}

SolveHoles == [k \in 1..(25 - MaxCell) |-> MaxCell + k]

\* a caller-supplied criterion: the second tile has reached location 2
CustomCriterion == [kind |-> "target", tix |-> 1, loc |-> 2]

SolveCriteria == {DefaultCriterion, NoCriterion, NeverCriterion, CustomCriterion}

SolveDistances == {None} \cup 0..MaxDistance

InitialPositions(hs, keys) ==
    {ip \in {<<[key |-> keys[1], tile |-> a], [key |-> keys[2], tile |-> b]>> :
                a \in {place_tile(keys[1], o, loc) :
                          o \in allowed_orientations[keys[1]], loc \in Locations} \ {NonePos},
                b \in {place_tile(keys[2], o, loc) :
                          o \in allowed_orientations[keys[2]], loc \in Locations} \ {NonePos}} :
        check_position(hs, Values(ip))}

InitSolve ==
    LET board == set_holes(<<>>, InitialResultingLocs, SolveHoles)
    IN \E keys \in SolveKeyLists : \E ip \in InitialPositions(board.holes, keys) :
       \E crit \in SolveCriteria : \E dmax \in SolveDistances : \E pen \in BOOLEAN :
          /\ holes = board.holes
          /\ resulting_locs = board.resulting_locs
          /\ initial_position = ip
          /\ visited_tree = <<>>
          /\ last_pos = NonePos
          /\ criterion_arg = crit
          /\ stopping_criterion = crit
          /\ distance_max = dmax
          /\ penalize_blocks = pen
          /\ to_explore = <<>>
          /\ settle_log = <<>>
          /\ found = FALSE
          /\ solve_pc = "call"
          /\ lists = <<>>
          /\ arg_ref = 0
          /\ pos_ref = 0
          /\ cp_input = NonePos
          /\ cp_tix = 0
          /\ cp_move = "nw"
          /\ to_move = <<>>
          /\ block_size = 0
          /\ moved_log = <<>>
          /\ cp_ret = [pos |-> NonePos, block_size |-> 0]
          /\ cp_pc = "idle"
          /\ UseIdle
          /\ HtIdle

cp_vars == <<lists, arg_ref, pos_ref, cp_input, cp_tix, cp_move, to_move,
             block_size, moved_log, cp_ret, cp_pc>>

\* variant of reset_tree: the tree of the previous call is kept
reset_tree_kept(visited, last) == [visited_tree |-> visited, last_pos |-> NonePos]

\* lines 240-241: re-initialize tree and last_pos
reset_tree(visited, last) == [visited_tree |-> <<>>, last_pos |-> NonePos]

\* variant of SolveEnter: the tree and last_pos are re-initialized after the
\* stopping criterion is set up
SolveEnterLateReset ==
    /\ solve_pc = "call"
    /\ to_explore' = <<[pos |-> Values(initial_position), waiting_time |-> 1,
                        father_info |-> StartFatherInfo, distance |-> 0]>>
    /\ IF stopping_criterion = DefaultCriterion
       THEN IF IndexOf(Keys(initial_position), tilekeys[1]) = None
            THEN solve_pc' = "raised" /\ UNCHANGED <<stopping_criterion, visited_tree, last_pos>>
            ELSE /\ stopping_criterion' = default_criterion(initial_position)
                 /\ solve_pc' = "loop"
                 /\ visited_tree' = reset_tree(visited_tree, last_pos).visited_tree
                 /\ last_pos' = reset_tree(visited_tree, last_pos).last_pos
       ELSE /\ solve_pc' = "loop"
            /\ visited_tree' = reset_tree(visited_tree, last_pos).visited_tree
            /\ last_pos' = reset_tree(visited_tree, last_pos).last_pos
            /\ UNCHANGED stopping_criterion
    /\ settle_log' = <<>>
    /\ UNCHANGED <<resulting_locs, holes, cp_vars, initial_position, criterion_arg,
                   distance_max, penalize_blocks, found, ext_vars>>

\* lines 237-249
SolveEnter ==
    /\ solve_pc = "call"
    /\ to_explore' = <<[pos |-> Values(initial_position), waiting_time |-> 1,
                        father_info |-> StartFatherInfo, distance |-> 0]>>
    /\ visited_tree' = reset_tree(visited_tree, last_pos).visited_tree
    /\ last_pos' = reset_tree(visited_tree, last_pos).last_pos
    /\ IF stopping_criterion = DefaultCriterion
       THEN IF IndexOf(Keys(initial_position), tilekeys[1]) = None
            THEN solve_pc' = "raised" /\ UNCHANGED stopping_criterion
            ELSE /\ stopping_criterion' = default_criterion(initial_position)
                 /\ solve_pc' = "loop"
       ELSE solve_pc' = "loop" /\ UNCHANGED stopping_criterion
    /\ settle_log' = <<>>
    /\ UNCHANGED <<resulting_locs, holes, cp_vars, initial_position, criterion_arg,
                   distance_max, penalize_blocks, found, ext_vars>>

SolveFrame == <<resulting_locs, holes, cp_vars, initial_position, criterion_arg,
                stopping_criterion, distance_max, penalize_blocks, ext_vars>>

\* line 284: the queue is empty
SolveExhausted ==
    /\ solve_pc = "loop"
    /\ Len(to_explore) = 0
    /\ found' = FALSE
    /\ solve_pc' = "done"
    /\ UNCHANGED <<SolveFrame, visited_tree, last_pos, to_explore, settle_log>>

\* lines 253-256: the popped entry is farther than distance_max
SolveTooFar ==
    /\ solve_pc = "loop"
    /\ Len(to_explore) > 0
    /\ LET p == queue_pop(to_explore)
       IN /\ too_far(distance_max, p.item.distance)
          /\ to_explore' = p.rest
    /\ found' = FALSE
    /\ solve_pc' = "done"
    /\ UNCHANGED <<SolveFrame, visited_tree, last_pos, settle_log>>

\* variant of SolveWait: the entry is reinserted with its waiting time unchanged
SolveWaitSameTime ==
    /\ solve_pc = "loop"
    /\ Len(to_explore) > 0
    /\ LET p == queue_pop(to_explore)
       IN /\ ~too_far(distance_max, p.item.distance)
          /\ must_wait(penalize_blocks, p.item.waiting_time)
          /\ to_explore' = Append(p.rest, [p.item EXCEPT !.distance = @ + 1])
    /\ UNCHANGED <<SolveFrame, visited_tree, last_pos, settle_log, found, solve_pc>>

\* lines 258-262: the popped entry waits one more turn
SolveWait ==
    /\ solve_pc = "loop"
    /\ Len(to_explore) > 0
    /\ LET p == queue_pop(to_explore)
       IN /\ ~too_far(distance_max, p.item.distance)
          /\ must_wait(penalize_blocks, p.item.waiting_time)
          /\ to_explore' = Append(p.rest,
                [p.item EXCEPT !.waiting_time = @ - 1, !.distance = @ + 1])
    /\ UNCHANGED <<SolveFrame, visited_tree, last_pos, settle_log, found, solve_pc>>

\* variant of SolveDrop: the father of the later occurrence replaces the recorded one
SolveDropOverwrite ==
    /\ solve_pc = "loop"
    /\ Len(to_explore) > 0
    /\ LET p == queue_pop(to_explore)
       IN /\ ~too_far(distance_max, p.item.distance)
          /\ ~must_wait(penalize_blocks, p.item.waiting_time)
          /\ p.item.pos \in DOMAIN visited_tree
          /\ visited_tree' = (p.item.pos :> p.item.father_info) @@ visited_tree
          /\ to_explore' = p.rest
    /\ UNCHANGED <<SolveFrame, last_pos, settle_log, found, solve_pc>>

\* lines 264-266: the popped position is already in the tree
SolveDrop ==
    /\ solve_pc = "loop"
    /\ Len(to_explore) > 0
    /\ LET p == queue_pop(to_explore)
       IN /\ ~too_far(distance_max, p.item.distance)
          /\ ~must_wait(penalize_blocks, p.item.waiting_time)
          /\ p.item.pos \in DOMAIN visited_tree
          /\ to_explore' = p.rest
    /\ UNCHANGED <<SolveFrame, visited_tree, last_pos, settle_log, found, solve_pc>>

\* lines 268-272: the popped position is inserted and meets the criterion
SolveFound ==
    /\ solve_pc = "loop"
    /\ Len(to_explore) > 0
    /\ LET p == queue_pop(to_explore)
       IN /\ ~too_far(distance_max, p.item.distance)
          /\ ~must_wait(penalize_blocks, p.item.waiting_time)
          /\ p.item.pos \notin DOMAIN visited_tree
          /\ CriterionMet(stopping_criterion, p.item.pos)
          /\ visited_tree' = (p.item.pos :> p.item.father_info) @@ visited_tree
          /\ last_pos' = p.item.pos
          /\ settle_log' = Append(settle_log, p.item.pos)
          /\ to_explore' = p.rest
    /\ found' = TRUE
    /\ solve_pc' = "done"
    /\ UNCHANGED SolveFrame

\* lines 268-282: the popped position is inserted and expanded
SolveExpand ==
    /\ solve_pc = "loop"
    /\ Len(to_explore) > 0
    /\ LET p == queue_pop(to_explore)
           tree1 == (p.item.pos :> p.item.father_info) @@ visited_tree
       IN /\ ~too_far(distance_max, p.item.distance)
          /\ ~must_wait(penalize_blocks, p.item.waiting_time)
          /\ p.item.pos \notin DOMAIN visited_tree
          /\ ~CriterionMet(stopping_criterion, p.item.pos)
          /\ visited_tree' = tree1
          /\ last_pos' = p.item.pos
          /\ settle_log' = Append(settle_log, p.item.pos)
          /\ to_explore' = p.rest \o successors(resulting_locs, tree1, p.item.pos,
                                                p.item.father_info, p.item.distance)
    /\ UNCHANGED <<SolveFrame, found, solve_pc>>

NextSolve ==
    \/ SolveEnter
    \/ SolveExhausted
    \/ SolveTooFar
    \/ SolveWait
    \/ SolveDrop
    \/ SolveFound
    \/ SolveExpand

SpecSolve == InitSolve /\ [][NextSolve]_vars

--------------------------------------------------------------------------
(* Properties of the solver (SpecSolve) *)

\* the moves accepted by the move engine from the positions of a set:
\* triples <<position, resulting position, block size>>
MoveEdges(table, positions) ==
    UNION {{<<p, r.pos, r.block_size>> :
               r \in {change_pos(table, p, tix, move) :
                         tix \in 0..(Len(p) - 1), move \in Range(MoveList)} \ 
                     {[pos |-> NonePos, block_size |-> 1]}} :
           p \in positions}

\* the positions reachable from a position by successful moves
RECURSIVE ReachableFrom(_, _, _)
ReachableFrom(table, seen, frontier) ==
    IF frontier = {} THEN seen
    ELSE LET next == {e[2] : e \in MoveEdges(table, frontier)} \ seen
         IN ReachableFrom(table, seen \cup next, next)

Reachable(table, start) == ReachableFrom(table, {start}, {start})

\* layers[d+1] is the set of positions at distance exactly d, each move counting
\* its block size if weighted and 1 if not
RECURSIVE DistanceLayers(_, _, _, _, _)
DistanceLayers(edges, weighted, all, layers, settled) ==
    IF settled = all THEN layers
    ELSE LET d == Len(layers)
             cost(e) == IF weighted THEN e[3] ELSE 1
             next == {e[2] : e \in {e \in edges : cost(e) <= d /\ e[1] \in layers[d - cost(e) + 1]}}
                        \ settled
         IN DistanceLayers(edges, weighted, all, Append(layers, next), settled \cup next)

Layers(table, start, weighted) ==
    LET all == Reachable(table, start)
    IN DistanceLayers(MoveEdges(table, all), weighted, all, <<{start}>>, {start})

\* least distance of a position of goals; None if there is none
MinDistance(layers, goals) ==
    IF \E d \in DOMAIN layers : layers[d] \cap goals # {}
    THEN (CHOOSE d \in DOMAIN layers :
             layers[d] \cap goals # {} /\ \A c \in 1..(d - 1) : layers[c] \cap goals = {}) - 1
    ELSE None

\* the stopping predicate requested by the caller, read from the argument
Goal(pos) ==
    CASE criterion_arg.kind = "default" ->
            \E k \in DOMAIN initial_position :
                initial_position[k].key = "rouge" /\ 0 \in Range(pos[k])
      [] criterion_arg.kind = "target" ->
            criterion_arg.loc \in Range(pos[criterion_arg.tix + 1])
      [] OTHER -> FALSE

StartPos == Values(initial_position)

Goals == {p \in Reachable(resulting_locs, StartPos) : Goal(p)}

SolvePath == shortest_path(visited_tree, last_pos)

RECURSIVE PathWeightFrom(_, _)
PathWeightFrom(path, k) ==
    IF k >= Len(path) THEN 0
    ELSE change_pos(resulting_locs, path[k].pos, path[k].tix, path[k].move).block_size
            + PathWeightFrom(path, k + 1)

PathWeight(path) == PathWeightFrom(path, 1)

SolveDone == solve_pc = "done"

\* C6: without penalization and without distance_max, when a position meeting
\* the stopping predicate is reachable, solve returns True and the path of
\* shortest_path has the least possible number of moves.
C6_BfsOptimality ==
    (SolveDone /\ ~penalize_blocks /\ distance_max = None /\ Goals # {}) =>
        /\ found
        /\ Len(SolvePath) - 1
              = MinDistance(Layers(resulting_locs, StartPos, FALSE), Goals)

C6_Witness ==
    /\ SolveDone /\ ~penalize_blocks /\ distance_max = None
    /\ found
    /\ Len(SolvePath) - 1 >= 4
    /\ Len(SolvePath) - 1 = MinDistance(Layers(resulting_locs, StartPos, FALSE), Goals)

\* C7: with penalization and without distance_max, the total block size of the
\* moves of the path of shortest_path is the least total block size of a move
\* sequence leading to a position meeting the stopping predicate.
C7_WeightedOptimality ==
    (SolveDone /\ penalize_blocks /\ distance_max = None /\ found) =>
        PathWeight(SolvePath) = MinDistance(Layers(resulting_locs, StartPos, TRUE), Goals)

C7_Witness ==
    /\ SolveDone /\ penalize_blocks /\ distance_max = None /\ found
    /\ PathWeight(SolvePath) = MinDistance(Layers(resulting_locs, StartPos, TRUE), Goals)
    /\ PathWeight(SolvePath) > MinDistance(Layers(resulting_locs, StartPos, FALSE), Goals)
    /\ Len(SolvePath) - 1 > MinDistance(Layers(resulting_locs, StartPos, FALSE), Goals)

\* C8: without distance_max solve returns True exactly when a reachable position
\* meets the stopping predicate; then last_pos is in visited_tree and meets it
\* (the tile registered under "rouge" has a location 0 for the default one);
\* False is returned once the queue is empty.
C8_FoundIffReachable ==
    (SolveDone /\ distance_max = None) =>
        /\ found <=> Goals # {}
        /\ found => (last_pos \in DOMAIN visited_tree /\ Goal(last_pos))
        /\ ~found => Len(to_explore) = 0

C8_Witness ==
    /\ SolveDone /\ distance_max = None /\ found
    /\ criterion_arg = DefaultCriterion
    /\ Keys(initial_position) = <<"foret", "rouge">>
    /\ 0 \in Range(last_pos[2])
    /\ Len(settle_log) >= 4

\* C9: with a stopping predicate that is None or always false and without
\* distance_max, solve returns False and visited_tree holds exactly the
\* reachable positions, each inserted once.
C9_Exhaustiveness ==
    (SolveDone /\ criterion_arg \in {NoCriterion, NeverCriterion} /\ distance_max = None) =>
        /\ ~found
        /\ DOMAIN visited_tree = Reachable(resulting_locs, StartPos)
        /\ Range(settle_log) = DOMAIN visited_tree
        /\ Len(settle_log) = Cardinality(DOMAIN visited_tree)

C9_Witness ==
    /\ SolveDone /\ criterion_arg = NeverCriterion /\ distance_max = None
    /\ ~found
    /\ Cardinality(DOMAIN visited_tree) >= 10
    /\ DOMAIN visited_tree = Reachable(resulting_locs, StartPos)
    /\ Len(settle_log) = Cardinality(DOMAIN visited_tree)

\* distance of a position from the initial position in the metric in force
DistanceInForce(pos) ==
    MinDistance(Layers(resulting_locs, StartPos, penalize_blocks), {pos})

\* C10: when an integer distance_max >= 0 is supplied (0 included), solve
\* returns on dequeuing an entry farther than distance_max, so that no position
\* farther than distance_max from the initial position is ever inserted in
\* visited_tree (last_pos is the position inserted last).
C10_DistanceMaxRespected ==
    (solve_pc \in {"loop", "done"} /\ distance_max # None /\ last_pos # NonePos) =>
        DistanceInForce(last_pos) <= distance_max

\* the positions at distance at most dmax from the initial position
WithinDistance(layers, dmax) ==
    UNION {layers[d] : d \in {d \in DOMAIN layers : d - 1 <= dmax}}

\* C11: solve called with distance_max >= 1 and a stopping predicate that is
\* never met: at return visited_tree holds exactly the positions whose distance
\* from the initial position in the metric in force is at most distance_max.
C11_DistanceMaxExhaustive ==
    (SolveDone /\ distance_max # None /\ distance_max >= 1
        /\ criterion_arg \in {NoCriterion, NeverCriterion}) =>
        /\ ~found
        /\ DOMAIN visited_tree
              = WithinDistance(Layers(resulting_locs, StartPos, penalize_blocks), distance_max)

C11_Witness ==
    /\ SolveDone /\ distance_max = 2 /\ criterion_arg = NeverCriterion
    /\ penalize_blocks
    /\ ~found
    /\ Cardinality(DOMAIN visited_tree) >= 5
    /\ Len(to_explore) > 0
    /\ Cardinality(Reachable(resulting_locs, StartPos)) > Cardinality(DOMAIN visited_tree)
    /\ DOMAIN visited_tree
          = WithinDistance(Layers(resulting_locs, StartPos, TRUE), distance_max)

\* re-applying the move recorded in entry k of a path gives the position of
\* entry k + 1
StepReplays(path, k) ==
    LET r == change_pos(resulting_locs, path[k].pos, path[k].tix, path[k].move)
    IN r.pos # NonePos /\ r.pos = path[k + 1].pos

\* C12: after a solve call that returned, the path of shortest_path starts at
\* the initial position, ends at last_pos, and each entry's (tix, move) applied
\* with change_pos to that entry's position succeeds and gives the position of
\* the next entry.
C12_PathRoundTrip ==
    SolveDone =>
        /\ Len(SolvePath) >= 1
        /\ SolvePath[1].pos = StartPos
        /\ SolvePath[Len(SolvePath)].pos = last_pos
        /\ \A k \in 1..(Len(SolvePath) - 1) : StepReplays(SolvePath, k)

C12_Witness ==
    /\ SolveDone /\ found
    /\ Len(SolvePath) >= 4
    /\ SolvePath[1].pos = StartPos
    /\ SolvePath[Len(SolvePath)].pos = last_pos
    /\ \A k \in 1..(Len(SolvePath) - 1) : StepReplays(SolvePath, k)
    /\ \E k \in 1..(Len(SolvePath) - 1) :
          change_pos(resulting_locs, SolvePath[k].pos, SolvePath[k].tix,
                     SolvePath[k].move).block_size > 1

--------------------------------------------------------------------------
(* Initial position, path and forced passage operations of an instance *)

\* variant of set_initial_position: the dict is stored before its keys are checked
set_initial_position_unchecked(ip, kw) ==
    [initial_position |-> kw,
     raised |-> \E k \in DOMAIN kw : kw[k].key \notin Range(tilekeys)]

\* set_initial_position(**kwargs): new value of initial_position, and whether
\* ValueError is raised
set_initial_position(ip, kw) ==
    IF \E k \in DOMAIN kw : kw[k].key \notin Range(tilekeys)
    THEN [initial_position |-> ip, raised |-> TRUE]
    ELSE [initial_position |-> kw, raised |-> FALSE]

\* assert pos is not None, in shortest_path and compute_forced_passage_positions
has_terminal(last) == last # NonePos

\* variant of dfs_neighbors: the direction "se" is not tried
dfs_neighbors_no_se(table, pos, father) ==
    LET order == [k \in 1..(3 * Len(pos)) |->
                     [tix |-> (k - 1) \div 3, move |-> MoveList[((k - 1) % 3) + 1]]]
        new_pos(k) == change_pos(table, pos, order[k].tix, order[k].move).pos
        kept(k) == new_pos(k) # NonePos /\ (father = NonePos \/ father # new_pos(k))
    IN [j \in 1..Cardinality({k \in DOMAIN order : kept(k)}) |->
           new_pos(CHOOSE k \in DOMAIN order :
                      kept(k) /\ Cardinality({l \in 1..k : kept(l)}) = j)]

\* Antivirus.hopcroft_tarjan: the neighbors computed on the first visit of pos
dfs_neighbors(table, pos, father) ==
    LET order == [k \in 1..(4 * Len(pos)) |->
                     [tix |-> (k - 1) \div 4, move |-> MoveList[((k - 1) % 4) + 1]]]
        new_pos(k) == change_pos(table, pos, order[k].tix, order[k].move).pos
        kept(k) == new_pos(k) # NonePos /\ (father = NonePos \/ father # new_pos(k))
    IN [j \in 1..Cardinality({k \in DOMAIN order : kept(k)}) |->
           new_pos(CHOOSE k \in DOMAIN order :
                      kept(k) /\ Cardinality({l \in 1..k : kept(l)}) = j)]

\* Antivirus.hopcroft_tarjan: the for loop over the neighbors of pos from index k;
\* next is the neighbor to explore (break), NonePos if the loop ran to its end
RECURSIVE dfs_scan(_, _, _, _, _)
dfs_scan(st, pos, neighbors, k, start) ==
    IF k > Len(neighbors) THEN [tree |-> st.tree, art |-> st.art, next |-> NonePos]
    ELSE LET n_pos == neighbors[k]
             info == st.tree[pos]
         IN IF n_pos \notin DOMAIN st.tree
            THEN [tree |-> (n_pos :> [father |-> pos, known |-> FALSE, neighbors |-> <<>>,
                                      depth |-> info.depth + 1, lowpoint |-> info.depth + 1])
                           @@ st.tree,
                  art |-> st.art, next |-> n_pos]
            ELSE LET n_info == st.tree[n_pos]
                     low == IF n_info.depth < n_info.lowpoint
                            THEN (IF info.lowpoint < n_info.depth THEN info.lowpoint
                                  ELSE n_info.depth)
                            ELSE (IF info.lowpoint < n_info.lowpoint THEN info.lowpoint
                                  ELSE n_info.lowpoint)
                 IN dfs_scan([tree |-> [st.tree EXCEPT ![pos].lowpoint = low],
                              art |-> IF pos # start /\ info.depth <= n_info.lowpoint
                                      THEN st.art \cup {pos} ELSE st.art],
                             pos, neighbors, k + 1, start)

\* Antivirus.hopcroft_tarjan: one iteration of the while loop on
\* st = [to_explore, tree, art]
dfs_step(table, st, start) ==
    LET pos == st.to_explore[Len(st.to_explore)]
        info == st.tree[pos]
        neighbors == IF info.known THEN info.neighbors
                     ELSE dfs_neighbors(table, pos, info.father)
        tree1 == [st.tree EXCEPT ![pos].known = TRUE, ![pos].neighbors = neighbors]
        r == dfs_scan([tree |-> tree1, art |-> st.art], pos, neighbors, 1, start)
    IN [to_explore |-> IF r.next # NonePos THEN Append(st.to_explore, r.next)
                       ELSE SubSeq(st.to_explore, 1, Len(st.to_explore) - 1),
        tree |-> r.tree, art |-> r.art]

\* compute_forced_passage_positions: the walk from pos up the parents of df_tree;
\* KeyError when pos is not in df_tree
RECURSIVE forced_passage_walk(_, _, _, _)
forced_passage_walk(dft, art, pos, acc) ==
    IF pos = NonePos THEN [list |-> acc, raised |-> FALSE]
    ELSE IF pos \notin DOMAIN dft
         THEN [list |-> IF pos \in art THEN <<pos>> \o acc ELSE acc, raised |-> TRUE]
         ELSE forced_passage_walk(dft, art, dft[pos].father,
                                  IF pos \in art THEN <<pos>> \o acc ELSE acc)

--------------------------------------------------------------------------
(* Specification SpecUse: calls on one instance, from its construction *)

\* the argument lists of the calls of set_holes; a location is registered once
UseHoleCalls == {<<6>>, SolveHoles}

UseKwargs ==
    {<<[key |-> "foret", tile |-> <<9, 10>>]>>,
     <<[key |-> "foret", tile |-> <<10, 11>>], [key |-> "rouge", tile |-> <<9, 5>>]>>,
     <<[key |-> "rouge", tile |-> <<10, 6>>], [key |-> "noir", tile |-> <<9, 10>>]>>}

UseSolveArgs ==
    {[stopping_criterion |-> DefaultCriterion, distance_max |-> None, penalize_blocks |-> TRUE],
     [stopping_criterion |-> NeverCriterion, distance_max |-> MaxDistance, penalize_blocks |-> TRUE]}

\* the attributes of an instance after __init__, no call made on it
FreshInstance ==
    /\ holes = <<>>
    /\ resulting_locs = InitialResultingLocs
    /\ initial_position = <<>>
    /\ visited_tree = <<>>
    /\ last_pos = NonePos
    /\ criterion_arg = NoCriterion
    /\ stopping_criterion = NoCriterion
    /\ distance_max = None
    /\ penalize_blocks = TRUE
    /\ to_explore = <<>>
    /\ settle_log = <<>>
    /\ found = FALSE
    /\ solve_pc = "idle"
    /\ lists = <<>>
    /\ arg_ref = 0
    /\ pos_ref = 0
    /\ cp_input = NonePos
    /\ cp_tix = 0
    /\ cp_move = "nw"
    /\ to_move = <<>>
    /\ block_size = 0
    /\ moved_log = <<>>
    /\ cp_ret = [pos |-> NonePos, block_size |-> 0]
    /\ cp_pc = "idle"
    /\ UseIdle

\* after __init__
InitUse == FreshInstance /\ HtIdle

\* the caller is not inside a call
Callable == call.outcome # "running"

\* lines 88-92
SetHoles(locations) ==
    /\ Callable
    /\ LET board == set_holes(holes, resulting_locs, locations)
       IN /\ holes' = board.holes
          /\ resulting_locs' = board.resulting_locs
    /\ call' = [op |-> "set_holes", outcome |-> "returned"]
    /\ kwargs' = <<>>
    /\ ret' = <<>>
    /\ UNCHANGED <<cp_vars, solve_vars, forced_passage, df_vars, ht_vars, observed>>

\* lines 97-108
SetInitialPosition(kw) ==
    /\ Callable
    /\ LET r == set_initial_position(initial_position, kw)
       IN /\ initial_position' = r.initial_position
          /\ call' = [op |-> "set_initial_position",
                      outcome |-> IF r.raised THEN "ValueError" ELSE "returned"]
    /\ kwargs' = kw
    /\ ret' = <<>>
    /\ UNCHANGED <<resulting_locs, holes, cp_vars, visited_tree, last_pos, criterion_arg,
                   stopping_criterion, distance_max, penalize_blocks, to_explore,
                   settle_log, found, solve_pc, forced_passage, df_vars,
                   ht_vars, observed>>

\* solve(stopping_criterion, penalize_blocks, distance_max) is called; the model has
\* no value for the empty position, so that an instance without initial position
\* is only solved for the default criterion (which raises)
SolveCall(args) ==
    /\ Callable
    /\ initial_position # <<>> \/ args.stopping_criterion = DefaultCriterion
    /\ criterion_arg' = args.stopping_criterion
    /\ stopping_criterion' = args.stopping_criterion
    /\ distance_max' = args.distance_max
    /\ penalize_blocks' = args.penalize_blocks
    /\ found' = FALSE
    /\ solve_pc' = "call"
    /\ call' = [op |-> "solve", outcome |-> "running"]
    /\ kwargs' = <<>>
    /\ ret' = <<>>
    /\ UNCHANGED <<resulting_locs, holes, cp_vars, initial_position, visited_tree, last_pos,
                   to_explore, settle_log, forced_passage, df_vars, ht_vars, observed>>

\* solve returns True or False to the caller
SolveReturn ==
    /\ call = [op |-> "solve", outcome |-> "running"]
    /\ solve_pc = "done"
    /\ call' = [op |-> "solve", outcome |-> IF found THEN "True" ELSE "False"]
    /\ UNCHANGED <<resulting_locs, holes, cp_vars, solve_vars, kwargs, ret, forced_passage,
                   df_vars, ht_vars, observed>>

\* the ValueError of solve reaches the caller
SolveRaise ==
    /\ call = [op |-> "solve", outcome |-> "running"]
    /\ solve_pc = "raised"
    /\ call' = [op |-> "solve", outcome |-> "ValueError"]
    /\ UNCHANGED <<resulting_locs, holes, cp_vars, solve_vars, kwargs, ret,
                   forced_passage, df_vars, ht_vars, observed>>

\* variant of ShortestPath: the assertion is left out, so that the walk fails on
\* tuple(None)
ShortestPathNoAssert ==
    /\ Callable
    /\ IF has_terminal(last_pos)
       THEN /\ ret' = shortest_path(visited_tree, last_pos)
            /\ call' = [op |-> "shortest_path", outcome |-> "returned"]
       ELSE /\ ret' = <<>>
            /\ call' = [op |-> "shortest_path", outcome |-> "TypeError"]
    /\ kwargs' = <<>>
    /\ UNCHANGED <<resulting_locs, holes, cp_vars, solve_vars, forced_passage,
                   df_vars, ht_vars, observed>>

\* lines 289-297
ShortestPath ==
    /\ Callable
    /\ IF has_terminal(last_pos)
       THEN /\ ret' = shortest_path(visited_tree, last_pos)
            /\ call' = [op |-> "shortest_path", outcome |-> "returned"]
       ELSE /\ ret' = <<>>
            /\ call' = [op |-> "shortest_path", outcome |-> "AssertionError"]
    /\ kwargs' = <<>>
    /\ UNCHANGED <<resulting_locs, holes, cp_vars, solve_vars, forced_passage,
                   df_vars, ht_vars, observed>>

\* lines 315-318 and 333-336: the assertion, then the call of hopcroft_tarjan
ComputeForcedPassagePositions ==
    /\ Callable
    /\ IF has_terminal(last_pos)
       THEN /\ df_to_explore' = <<Values(initial_position)>>
            /\ df_tree' = (Values(initial_position) :>
                              [father |-> NonePos, known |-> FALSE, neighbors |-> <<>>,
                               depth |-> 0, lowpoint |-> 0])
            /\ df_articulation_points' = {}
            /\ fp_pc' = "dfs"
            /\ call' = [op |-> "compute_forced_passage_positions", outcome |-> "running"]
       ELSE /\ call' = [op |-> "compute_forced_passage_positions",
                        outcome |-> "AssertionError"]
            /\ UNCHANGED df_vars
    /\ kwargs' = <<>>
    /\ ret' = <<>>
    /\ UNCHANGED <<resulting_locs, holes, cp_vars, solve_vars, forced_passage,
                   ht_vars, observed>>

\* lines 338-371: one iteration of the while loop of hopcroft_tarjan
HopcroftTarjanStep ==
    /\ fp_pc = "dfs"
    /\ Len(df_to_explore) > 0
    /\ LET st == dfs_step(resulting_locs,
                          [to_explore |-> df_to_explore, tree |-> df_tree,
                           art |-> df_articulation_points],
                          Values(initial_position))
       IN /\ df_to_explore' = st.to_explore
          /\ df_tree' = st.tree
          /\ df_articulation_points' = st.art
    /\ UNCHANGED <<resulting_locs, holes, cp_vars, solve_vars, call, kwargs, ret,
                   forced_passage, fp_pc, ht_vars, observed>>

\* lines 373 and 320-326: hopcroft_tarjan returns, forced_passage is filled
ForcedPassageReturn ==
    /\ fp_pc = "dfs"
    /\ Len(df_to_explore) = 0
    /\ LET r == forced_passage_walk(df_tree, df_articulation_points, last_pos, <<>>)
       IN /\ forced_passage' = [set |-> TRUE, list |-> r.list]
          /\ call' = [op |-> "compute_forced_passage_positions",
                      outcome |-> IF r.raised THEN "KeyError" ELSE "returned"]
    /\ df_tree' = <<>>
    /\ df_articulation_points' = {}
    /\ fp_pc' = "idle"
    /\ UNCHANGED <<resulting_locs, holes, cp_vars, solve_vars, kwargs, ret,
                   df_to_explore, ht_vars, observed>>

NextUse ==
    \/ \E locations \in UseHoleCalls :
          Range(locations) \cap Range(holes) = {} /\ SetHoles(locations)
    \/ \E kw \in UseKwargs : SetInitialPosition(kw)
    \/ \E args \in UseSolveArgs : SolveCall(args)
    \/ SolveEnter
    \/ SolveExhausted
    \/ SolveTooFar
    \/ SolveWait
    \/ SolveDrop
    \/ SolveFound
    \/ SolveExpand
    \/ SolveReturn
    \/ SolveRaise
    \/ ShortestPath
    \/ ComputeForcedPassagePositions
    \/ HopcroftTarjanStep
    \/ ForcedPassageReturn

SpecUse == InitUse /\ [][NextUse]_vars

--------------------------------------------------------------------------
(* Properties of the calls on an instance (SpecUse) *)

\* C13: shortest_path and compute_forced_passage_positions fail with an
\* assertion error whenever no terminal position is recorded, as when no solve
\* call has been run (then no path and no forced passage list exists); after a
\* solve call that returned, found or not, shortest_path returns a path.
C13_UsageSequenceErrors ==
    /\ call.op = "shortest_path" =>
          /\ last_pos = NonePos => (call.outcome = "AssertionError" /\ ret = <<>>)
          /\ solve_pc = "done" => (call.outcome = "returned" /\ Len(ret) >= 1)
    /\ call.op = "compute_forced_passage_positions" =>
          (last_pos = NonePos => call.outcome = "AssertionError")
    /\ solve_pc = "idle" => (last_pos = NonePos /\ forced_passage = NoForcedPassage)

C13_Witness ==
    /\ call = [op |-> "shortest_path", outcome |-> "AssertionError"]
    /\ solve_pc = "idle"
    /\ initial_position # <<>>
    /\ holes # <<>>
    /\ ret = <<>>

\* C14: solve called for the default criterion on an initial position without
\* the key "rouge" raises ValueError before a position is explored; the instance
\* is left with an empty visited_tree and no last_pos, so that the results of an
\* earlier solve are gone and a following shortest_path fails.
C14_DefaultTargetMissing ==
    /\ [](solve_pc = "raised" =>
             /\ criterion_arg = DefaultCriterion
             /\ visited_tree = <<>>
             /\ last_pos = NonePos
             /\ settle_log = <<>>
             /\ call.op = "shortest_path" => call.outcome = "AssertionError")
    /\ [][(/\ solve_pc = "call"
           /\ criterion_arg = DefaultCriterion
           /\ "rouge" \notin Range(Keys(initial_position)))
              => (solve_pc' = "raised" /\ visited_tree' = <<>> /\ last_pos' = NonePos)]_vars

C14_Witness ==
    /\ solve_pc = "raised"
    /\ call = [op |-> "shortest_path", outcome |-> "AssertionError"]
    /\ forced_passage.set
    /\ "rouge" \notin Range(Keys(initial_position))
    /\ visited_tree = <<>>
    /\ last_pos = NonePos

\* C15: set_initial_position called with a key outside tilekeys raises
\* ValueError and leaves initial_position as it was (no key of the rejected call
\* is stored); called with recognized keys only, it replaces initial_position,
\* the tile index of each key being its rank among the keys given.
C15_SetInitialPosition ==
    /\ [](\A k \in DOMAIN initial_position : initial_position[k].key \in Range(tilekeys))
    /\ [][call'.op = "set_initial_position" =>
             IF \E k \in DOMAIN kwargs' : kwargs'[k].key \notin Range(tilekeys)
             THEN /\ call'.outcome = "ValueError"
                  /\ initial_position' = initial_position
             ELSE /\ call'.outcome = "returned"
                  /\ Len(initial_position') = Len(kwargs')
                  /\ \A k \in DOMAIN kwargs' :
                        /\ IndexOf(Keys(initial_position'), kwargs'[k].key) = k - 1
                        /\ Values(initial_position')[k] = kwargs'[k].tile]_vars

C15_Witness ==
    /\ call = [op |-> "set_initial_position", outcome |-> "ValueError"]
    /\ Len(kwargs) = 2
    /\ kwargs[1].key \in Range(tilekeys)
    /\ kwargs[2].key \notin Range(tilekeys)
    /\ Keys(initial_position) = <<"foret", "rouge">>
    /\ solve_pc = "done"

\* C16 as stated: once location h is registered as a hole, the table entry at
\* h is None for the four moves, in every later state of the instance.
C16_HoleIrreversibility ==
    \A h \in Range(holes) : \A move \in DOMAIN resulting_locs :
        resulting_locs[move][h + 1] = None

\* C16 amended: once location h is registered as a hole, no table entry of any
\* move is h, in every later state of the instance, and h stays registered.
C16_HoleUnreachable ==
    /\ [](\A h \in Range(holes) : \A move \in DOMAIN resulting_locs : \A c \in Locations :
             resulting_locs[move][c + 1] # h)
    /\ [][Range(holes) \subseteq Range(holes')]_vars

C16_Witness ==
    /\ 6 \in Range(holes)
    /\ Len(holes) = Len(SolveHoles) + 1
    /\ solve_pc = "done"
    /\ forced_passage.set
    /\ resulting_locs["nw"][6 + 1] = 2
    /\ \A move \in DOMAIN resulting_locs : \A c \in Locations : resulting_locs[move][c + 1] # 6

--------------------------------------------------------------------------
(* Specification SpecBoard: calls of set_holes on an instance, from its
   construction *)

\* set_holes is called while at most MaxHoles locations are registered
MaxHoles == 2

BoardHoleCalls ==
    {<<h>> : h \in Locations} \cup {<<a, b>> : a \in Locations, b \in Locations}

NextBoard ==
    \E locations \in BoardHoleCalls :
        Len(holes) + Len(locations) <= MaxHoles /\ SetHoles(locations)

SpecBoard == InitUse /\ [][NextBoard]_vars

\* the table of a board without holes in which the entries that are a location
\* of hs are replaced by None
NarrowedTable(hs) ==
    [move \in DOMAIN InitialResultingLocs |->
        [k \in DOMAIN InitialResultingLocs[move] |->
            IF InitialResultingLocs[move][k] \in hs THEN None
            ELSE InitialResultingLocs[move][k]]]

\* C17: after any sequence of set_holes calls the table is the original table
\* with exactly the entries that are a registered hole replaced by None; no
\* entry is restored or changed to another location, and registering holes that
\* are registered already leaves the table unchanged.
C17_HolesNarrowTopology ==
    /\ [](resulting_locs = NarrowedTable(Range(holes)))
    /\ [][\A move \in DOMAIN resulting_locs : \A k \in DOMAIN resulting_locs[move] :
             resulting_locs'[move][k] \in {resulting_locs[move][k], None}]_vars
    /\ [][Range(holes') = Range(holes) => resulting_locs' = resulting_locs]_vars

C17_Witness ==
    /\ holes = <<13, 9>>
    /\ resulting_locs["nw"][13 + 1] = None
    /\ resulting_locs["se"][9 + 1] = None
    /\ resulting_locs["nw"][9 + 1] = 5
    /\ resulting_locs = NarrowedTable({9, 13})

\* one step in a direction, in the 2d coordinates (x along ne, y along nw)
StepOf(move) ==
    CASE move = "nw" -> <<0, 1>>
      [] move = "ne" -> <<1, 0>>
      [] move = "sw" -> <<-1, 0>>
      [] move = "se" -> <<0, -1>>

\* the location one step from location c in a direction, None if there is none
NeighbourOf(c, move) ==
    coord2loc(<<loc2coord[c + 1][1] + StepOf(move)[1], loc2coord[c + 1][2] + StepOf(move)[2]>>)

\* C18: on a board without holes, for every move and every location c of
\* 0..25 the table entry is a location of 0..25 or None, and it is the location
\* one step from c in that direction in the 2d coordinates, None exactly when
\* that coordinate is not a location of the board.
C18_MoveLegality ==
    holes = <<>> =>
        /\ DOMAIN resulting_locs = Range(MoveList)
        /\ \A move \in Range(MoveList) :
              /\ Len(resulting_locs[move]) = Cardinality(Locations)
              /\ \A c \in Locations :
                    /\ resulting_locs[move][c + 1] \in Locations \cup {None}
                    /\ resulting_locs[move][c + 1] = NeighbourOf(c, move)

C18_Witness ==
    /\ holes = <<>>
    /\ resulting_locs["se"][0 + 1] = NeighbourOf(0, "se")
    /\ NeighbourOf(0, "se") = 1
    /\ resulting_locs["nw"][8 + 1] = None
    /\ NeighbourOf(8, "nw") = None
    /\ NeighbourOf(13, "ne") = 10

--------------------------------------------------------------------------
(* Specification SpecHT: one call of hopcroft_tarjan(start_pos,             *)
(* find_neighbors) of hopcroft_tarjan.py, one action per iteration of its   *)
(* loops.  The graph is the function find_neighbors: vertex -> list of      *)
(* neighbours; vertices are 0, 1, ...; the fake root None is None (-1).     *)

\* largest number of vertices of the graphs drawn at Init
MaxVertices == 4

\* info[1], info[2] of a vertex that has not been visited yet (None)
NoList == <<None>>

RECURSIVE SortedSeq(_)
SortedSeq(S) ==
    IF S = {} THEN <<>>
    ELSE LET m == CHOOSE x \in S : \A y \in S : x <= y
         IN <<m>> \o SortedSeq(S \ {m})

\* find_neighbors of the undirected graph on 0..n-1 with the edges E
GraphOf(n, E) ==
    [v \in 0..(n - 1) |-> SortedSeq({w \in 0..(n - 1) : w # v /\ {v, w} \in E})]

\* the lists of the graph of the module's test, for the vertices 0..13
ReferenceLists ==
    << <<1, 2>>, <<0, 3>>, <<0, 3>>, <<1, 2, 4>>, <<3, 5>>, <<4, 6>>, <<7, 11, 13>>,
       <<6, 8, 9>>, <<7, 9>>, <<7, 8, 10>>, <<9, 11>>, <<6, 10, 12>>, <<11>>, <<6>> >>

ReferenceGraph == [v \in 0..(Len(ReferenceLists) - 1) |-> ReferenceLists[v + 1]]

\* b is a neighbour of a in the undirected graph of the lists g
Adjacent(g, a, b) == b \in Range(g[a]) \/ a \in Range(g[b])

\* the vertices reached from the set seen without entering the set removed
RECURSIVE GraphReach(_, _, _)
GraphReach(g, seen, removed) ==
    LET next == seen \cup {b \in DOMAIN g \ removed : \E a \in seen : Adjacent(g, a, b)}
    IN IF next = seen THEN seen ELSE GraphReach(g, next, removed)

Connected(g) == GraphReach(g, {0}, {}) = DOMAIN g

ConnectedGraphs(n) ==
    {g \in {GraphOf(n, E) : E \in SUBSET {{a, b} : a, b \in 0..(n - 1)}} : Connected(g)}

\* the entry pushed in the tree for a vertex found from pos
NewInfo(pos, depth) ==
    [father |-> pos, children |-> NoList, neighbors |-> NoList,
     depth |-> depth, lowpoint |-> None]

\* first visit of pos: compute its neighbours, the father removed
first_visit(info, pos, g, start) ==
    IF info.children = NoList
    THEN [info EXCEPT !.children = <<>>,
                      !.neighbors = IF pos = None THEN <<start>>
                                    ELSE SelectSeq(g[pos], LAMBDA i : i # info.father)]
    ELSE info

\* list.remove(x): the list without the first occurrence of x
ListRemove(seq, x) ==
    LET k == IndexOf(seq, x) + 1
    IN SubSeq(seq, 1, k - 1) \o SubSeq(seq, k + 1, Len(seq))

\* 1-based index of the first neighbour that is not in the tree, 0 if there is none
first_unknown(neighbors, tr) ==
    IF \E k \in DOMAIN neighbors : neighbors[k] \notin DOMAIN tr
    THEN CHOOSE k \in DOMAIN neighbors :
             /\ neighbors[k] \notin DOMAIN tr
             /\ \A l \in 1..(k - 1) : neighbors[l] \in DOMAIN tr
    ELSE 0

\* min of a non-empty set of integers
MinOf(S) == CHOOSE x \in S : \A y \in S : x <= y

\* variant of is_articulation_edge: strict comparison
is_articulation_edge_strict(depth, n_lowpoint) == depth < n_lowpoint

\* the test "pos is an articulation point, (pos, n_pos) an articulation edge"
is_articulation_edge(depth, n_lowpoint) == depth <= n_lowpoint

\* the loop over the children of a vertex that is finished, from the k-th child;
\* st = [lowpoint, articulation_points]
RECURSIVE finish_scan(_, _, _, _, _)
finish_scan(st, pos, info, tr, k) ==
    IF k > Len(info.children) THEN st
    ELSE LET n_pos == info.children[k]
             n_lowpoint == tr[n_pos].lowpoint
             low1 == MinOf({st.lowpoint, n_lowpoint})
             ap == st.articulation_points
             ap1 == IF is_articulation_edge(info.depth, n_lowpoint)
                    THEN LET ap0 == IF pos \in DOMAIN ap THEN ap ELSE (pos :> <<>>) @@ ap
                         IN [ap0 EXCEPT ![pos] = Append(@, n_pos)]
                    ELSE ap
         IN finish_scan([lowpoint |-> low1, articulation_points |-> ap1], pos, info, tr, k + 1)

\* the loop over the children of a vertex in the second pass, from the k-th child;
\* st = [components, components_to_explore, N_comp, to_visit]
RECURSIVE visit_scan(_, _, _, _, _, _)
visit_scan(st, pos, children, ap, cid, k) ==
    IF k > Len(children) THEN st
    ELSE LET n_pos == children[k]
             launched == pos \in DOMAIN ap /\ n_pos \in Range(ap[pos])
             st1 == IF launched
                    THEN [st EXCEPT !.N_comp = @ + 1,
                                    !.components[pos] = Append(@, st.N_comp + 1),
                                    !.components_to_explore = Append(@, <<n_pos, st.N_comp + 1>>)]
                    ELSE [st EXCEPT !.components = (n_pos :> <<cid>>) @@ @,
                                    !.to_visit = Append(@, n_pos)]
         IN visit_scan(st1, pos, children, ap, cid, k + 1)

\* a dict without the key None
WithoutNone(dict) == [k \in DOMAIN dict \ {None} |-> dict[k]]

\* variant of remove_fake_root: the id of the edge to the fake root is kept
remove_fake_root_keep_id(comps, start) == WithoutNone(comps)

\* del components[None]; components[start_pos].remove(-1)
remove_fake_root(comps, start) ==
    [WithoutNone(comps) EXCEPT ![start] = ListRemove(@, -1)]

InitHT ==
    /\ FreshInstance
    /\ \/ \E n \in 1..MaxVertices :
             /\ graph \in ConnectedGraphs(n)
             /\ start_pos \in 0..(n - 1)
       \/ /\ graph = ReferenceGraph
          /\ start_pos = 0
    /\ ht_to_explore = <<>>
    /\ tree = <<>>
    /\ articulation_points = <<>>
    /\ components = <<>>
    /\ components_to_explore = <<>>
    /\ N_comp = 0
    /\ comp_id = 0
    /\ to_visit = <<>>
    /\ ht_pc = "call"

HtFrame ==
    UNCHANGED <<resulting_locs, holes, cp_vars, solve_vars, use_vars, observed, graph, start_pos>>

\* entry: the stack, the tree with the fake root, no articulation point
HtEnter ==
    /\ ht_pc = "call"
    /\ ht_to_explore' = <<None>>
    /\ tree' = (None :> NewInfo(None, -1))
    /\ articulation_points' = <<>>
    /\ ht_pc' = "first"
    /\ UNCHANGED <<components, components_to_explore, N_comp, comp_id, to_visit>>
    /\ HtFrame

\* first pass, an iteration that finds an unknown neighbour and descends to it
HtDescend ==
    /\ ht_pc = "first"
    /\ Len(ht_to_explore) > 0
    /\ LET pos == ht_to_explore[Len(ht_to_explore)]
           info == first_visit(tree[pos], pos, graph, start_pos)
           k == first_unknown(info.neighbors, tree)
       IN /\ k # 0
          /\ LET n_pos == info.neighbors[k]
             IN /\ ht_to_explore' = Append(ht_to_explore, n_pos)
                /\ tree' = (n_pos :> NewInfo(pos, info.depth + 1))
                           @@ [tree EXCEPT ![pos] =
                                  [info EXCEPT !.children = Append(@, n_pos),
                                               !.neighbors = ListRemove(@, n_pos)]]
    /\ UNCHANGED <<articulation_points, components, components_to_explore, N_comp,
                   comp_id, to_visit, ht_pc>>
    /\ HtFrame

\* first pass, an iteration that finds every neighbour known: lowpoint,
\* articulation edges, pop
HtFinish ==
    /\ ht_pc = "first"
    /\ Len(ht_to_explore) > 0
    /\ LET pos == ht_to_explore[Len(ht_to_explore)]
           info == first_visit(tree[pos], pos, graph, start_pos)
           k == first_unknown(info.neighbors, tree)
           low0 == MinOf({info.depth} \cup {tree[n].depth : n \in Range(info.neighbors)})
           st == finish_scan([lowpoint |-> low0, articulation_points |-> articulation_points],
                             pos, info, tree, 1)
       IN /\ k = 0
          /\ tree' = [tree EXCEPT ![pos] = [info EXCEPT !.lowpoint = st.lowpoint]]
          /\ articulation_points' = st.articulation_points
          /\ ht_to_explore' = SubSeq(ht_to_explore, 1, Len(ht_to_explore) - 1)
    /\ UNCHANGED <<components, components_to_explore, N_comp, comp_id, to_visit, ht_pc>>
    /\ HtFrame

\* the stack is empty: initialisation of the second pass
HtSecondPass ==
    /\ ht_pc = "first"
    /\ Len(ht_to_explore) = 0
    /\ components' = <<>>
    /\ components_to_explore' = << <<None, -2>> >>
    /\ N_comp' = -2
    /\ ht_pc' = "second"
    /\ UNCHANGED <<ht_to_explore, tree, articulation_points, comp_id, to_visit>>
    /\ HtFrame

\* second pass, outer loop: pop a component and start its visit
HtComponentStart ==
    /\ ht_pc = "second"
    /\ Len(to_visit) = 0
    /\ Len(components_to_explore) > 0
    /\ LET top == components_to_explore[Len(components_to_explore)]
       IN /\ components_to_explore' =
                 SubSeq(components_to_explore, 1, Len(components_to_explore) - 1)
          /\ comp_id' = top[2]
          /\ components' = (top[1] :> <<top[2]>>) @@ components
          /\ to_visit' = <<top[1]>>
    /\ UNCHANGED <<ht_to_explore, tree, articulation_points, N_comp, ht_pc>>
    /\ HtFrame

\* second pass, inner loop: pop a vertex and distribute its children
HtVisit ==
    /\ ht_pc = "second"
    /\ Len(to_visit) > 0
    /\ LET pos == to_visit[Len(to_visit)]
           st == visit_scan([components |-> components,
                             components_to_explore |-> components_to_explore,
                             N_comp |-> N_comp,
                             to_visit |-> SubSeq(to_visit, 1, Len(to_visit) - 1)],
                            pos, tree[pos].children, articulation_points, comp_id, 1)
       IN /\ components' = st.components
          /\ components_to_explore' = st.components_to_explore
          /\ N_comp' = st.N_comp
          /\ to_visit' = st.to_visit
    /\ UNCHANGED <<ht_to_explore, tree, articulation_points, comp_id, ht_pc>>
    /\ HtFrame

\* both loops are over: the fake root is removed and the maps are returned
HtReturn ==
    /\ ht_pc = "second"
    /\ Len(to_visit) = 0
    /\ Len(components_to_explore) = 0
    /\ IF -1 \in Range(components[start_pos])
       THEN /\ components' = remove_fake_root(components, start_pos)
            /\ tree' = WithoutNone(tree)
            /\ ht_pc' = "done"
       ELSE /\ components' = WithoutNone(components)
            /\ tree' = WithoutNone(tree)
            /\ ht_pc' = "ValueError"
    /\ UNCHANGED <<ht_to_explore, articulation_points, components_to_explore, N_comp,
                   comp_id, to_visit>>
    /\ HtFrame

NextHT ==
    \/ HtEnter
    \/ HtDescend
    \/ HtFinish
    \/ HtSecondPass
    \/ HtComponentStart
    \/ HtVisit
    \/ HtReturn

SpecHT == InitHT /\ [][NextHT]_vars

--------------------------------------------------------------------------
(* Properties of hopcroft_tarjan (SpecHT) *)

\* removing v disconnects the graph
IsCutVertex(g, v) ==
    \E a \in DOMAIN g \ {v} : GraphReach(g, {a}, {v}) # DOMAIN g \ {v}

\* a and b belong to a common biconnected component: they are joined by an
\* edge or no third vertex separates them
SameBlock(g, a, b) ==
    \A c \in DOMAIN g \ {a, b} : b \in GraphReach(g, {a}, {c})

\* C19: when hopcroft_tarjan has returned, a vertex of the graph has more than
\* one component id if and only if removing it disconnects the graph; this
\* holds for the start vertex too.
C19_ArticulationCorrectness ==
    ht_pc = "done" =>
        \A v \in DOMAIN graph :
            Cardinality(Range(components[v])) > 1 <=> IsCutVertex(graph, v)

C19_Witness ==
    /\ ht_pc = "done"
    /\ graph = ReferenceGraph
    /\ Cardinality(Range(components[6])) = 3
    /\ IsCutVertex(graph, 6)
    /\ Cardinality(Range(components[7])) = 1
    /\ ~IsCutVertex(graph, 7)
    /\ ~IsCutVertex(graph, start_pos)

\* C20: when hopcroft_tarjan has returned, the keys of the components map are
\* the vertices of the graph, two distinct vertices share a component id if
\* and only if they belong to a common biconnected component, and the ids -2
\* and -1 of the fake root are in no list.
C20_ComponentPartition ==
    ht_pc = "done" =>
        /\ DOMAIN components = DOMAIN graph
        /\ \A a, b \in DOMAIN graph :
              a # b => (Range(components[a]) \cap Range(components[b]) # {}
                           <=> SameBlock(graph, a, b))
        /\ \A v \in DOMAIN graph : Range(components[v]) \cap {-2, -1} = {}

C20_Witness ==
    /\ ht_pc = "done"
    /\ graph = ReferenceGraph
    /\ components = [v \in 0..13 |->
                        << <<0>>, <<0>>, <<0>>, <<0, 1>>, <<1, 2>>, <<2, 3>>, <<3, 4, 5>>,
                           <<4>>, <<4>>, <<4>>, <<4>>, <<4, 6>>, <<6>>, <<5>> >>[v + 1]]

--------------------------------------------------------------------------
(* Properties of the forced passage positions (SpecUse) *)

\* the graph of the positions reachable from the initial position: its vertices
\* and its moves as pairs <<position, resulting position>>
AllPositions == Reachable(resulting_locs, StartPos)

PositionEdges == {<<e[1], e[2]>> : e \in MoveEdges(resulting_locs, AllPositions)}

Symmetric(edges) == edges \cup {<<e[2], e[1]>> : e \in edges}

\* the positions reached from seen along the edges without entering removed
RECURSIVE ReachAvoiding(_, _, _, _)
ReachAvoiding(edges, seen, frontier, removed) ==
    IF frontier = {} THEN seen
    ELSE LET next == {e[2] : e \in {e \in edges : e[1] \in frontier}} \ (seen \cup removed)
         IN ReachAvoiding(edges, seen \cup next, next, removed)

\* removing v disconnects the graph (moves taken in both directions)
IsCutPosition(all, edges, v) ==
    LET rest == all \ {v}
    IN /\ rest # {}
       /\ LET a == CHOOSE a \in rest : TRUE
          IN ReachAvoiding(Symmetric(edges), {a}, {a}, {v}) # rest

\* the tree and last_pos recorded on the instance are those of a solve call on
\* the present board and initial position
SolveResultCurrent ==
    /\ solve_pc = "done"
    /\ last_pos # NonePos
    /\ StartPos \in DOMAIN visited_tree
    /\ \A K \in DOMAIN visited_tree :
          IF K = StartPos THEN visited_tree[K] = StartFatherInfo
          ELSE LET f == visited_tree[K]
               IN /\ f.pos \in DOMAIN visited_tree
                  /\ change_pos(resulting_locs, f.pos, f.tix, f.move).pos = K

\* compute_forced_passage_positions has returned after such a solve call
ForcedPassageComputed ==
    /\ call = [op |-> "compute_forced_passage_positions", outcome |-> "returned"]
    /\ SolveResultCurrent

\* C21: after solve followed by compute_forced_passage_positions, every
\* position of forced_passage is a cut vertex of the graph of the positions
\* reachable from the initial position: removing it disconnects that graph.
C21_ForcedPassageArticulation ==
    ForcedPassageComputed =>
        \A k \in DOMAIN forced_passage.list :
            IsCutPosition(AllPositions, PositionEdges, forced_passage.list[k])

\* C22: after solve followed by compute_forced_passage_positions, every
\* position of forced_passage is a position of the path returned by
\* shortest_path for that solve.
C22_ForcedPassageOnPath ==
    ForcedPassageComputed =>
        \A k \in DOMAIN forced_passage.list :
            \E j \in DOMAIN SolvePath : SolvePath[j].pos = forced_passage.list[k]

\* C23: when solve has found a terminal position, every position of
\* forced_passage is on every sequence of moves from the initial position to
\* that terminal position: without it the terminal position cannot be reached.
C23_ForcedPassageUnavoidable ==
    (ForcedPassageComputed /\ found) =>
        \A k \in DOMAIN forced_passage.list :
            LET v == forced_passage.list[k]
            IN \/ v \in {StartPos, last_pos}
               \/ last_pos \notin ReachAvoiding(PositionEdges, {StartPos}, {StartPos}, {v})

--------------------------------------------------------------------------
(* Reversibility of the moves (SpecMove) *)

\* some move of some tile leads from position q to position p
MovesTo(table, q, p) ==
    \E tix \in 0..(Len(q) - 1) : \E move \in Range(MoveList) :
        change_pos(table, q, tix, move).pos = p

\* C24: when change_pos succeeds on a valid position P and returns Q different
\* from P (simple move or block move), some tile index and direction make
\* change_pos applied to Q return exactly P.
C24_NeighboursUndirected ==
    (CpSuccess /\ ValidPosition(holes, cp_input) /\ cp_ret.pos # cp_input) =>
        MovesTo(resulting_locs, cp_ret.pos, cp_input)

--------------------------------------------------------------------------
(* Specification SpecAgain: solve called several times on one instance, the  *)
(* initial position changed or not between the calls; the caller keeps the   *)
(* outcome of every call.                                                    *)

\* largest number of solve calls made on the instance
MaxCalls == 3

AgainKwargs ==
    {<<[key |-> "rouge", tile |-> <<9, 5>>], [key |-> "foret", tile |-> <<1, 2>>]>>,
     <<[key |-> "foret", tile |-> <<8, 1>>], [key |-> "rouge", tile |-> <<7, 3>>]>>,
     <<[key |-> "foret", tile |-> <<9, 10>>]>>}

\* after __init__ and set_holes(*SolveHoles)
InitAgain ==
    LET board == set_holes(<<>>, InitialResultingLocs, SolveHoles)
    IN /\ holes = board.holes
       /\ resulting_locs = board.resulting_locs
       /\ initial_position = <<>>
       /\ visited_tree = <<>>
       /\ last_pos = NonePos
       /\ criterion_arg = NoCriterion
       /\ stopping_criterion = NoCriterion
       /\ distance_max = None
       /\ penalize_blocks = TRUE
       /\ to_explore = <<>>
       /\ settle_log = <<>>
       /\ found = FALSE
       /\ solve_pc = "idle"
       /\ lists = <<>>
       /\ arg_ref = 0
       /\ pos_ref = 0
       /\ cp_input = NonePos
       /\ cp_tix = 0
       /\ cp_move = "nw"
       /\ to_move = <<>>
       /\ block_size = 0
       /\ moved_log = <<>>
       /\ cp_ret = [pos |-> NonePos, block_size |-> 0]
       /\ cp_pc = "idle"
       /\ UseIdle
       /\ HtIdle

\* what the caller sees of a finished solve call: the configuration and the
\* arguments of the call, the returned value or the exception, the tree, the
\* terminal position and the path of shortest_path
Outcome(result) ==
    [initial_position |-> initial_position,
     stopping_criterion |-> criterion_arg,
     distance_max |-> distance_max,
     penalize_blocks |-> penalize_blocks,
     result |-> result,
     visited_tree |-> visited_tree,
     last_pos |-> last_pos,
     path |-> IF has_terminal(last_pos) THEN shortest_path(visited_tree, last_pos) ELSE <<>>]

\* solve returns or raises, and the caller records the outcome
SolveReturnObserved ==
    /\ call = [op |-> "solve", outcome |-> "running"]
    /\ solve_pc \in {"done", "raised"}
    /\ LET result == IF solve_pc = "raised" THEN "ValueError"
                     ELSE IF found THEN "True" ELSE "False"
       IN /\ call' = [op |-> "solve", outcome |-> result]
          /\ observed' = Append(observed, Outcome(result))
    /\ UNCHANGED <<resulting_locs, holes, cp_vars, solve_vars, kwargs, ret, forced_passage,
                   df_vars, ht_vars>>

NextAgain ==
    \/ \E kw \in AgainKwargs : SetInitialPosition(kw)
    \/ \E args \in UseSolveArgs : Len(observed) < MaxCalls /\ SolveCall(args)
    \/ SolveEnter
    \/ SolveExhausted
    \/ SolveTooFar
    \/ SolveWait
    \/ SolveDrop
    \/ SolveFound
    \/ SolveExpand
    \/ SolveReturnObserved

SpecAgain == InitAgain /\ [][NextAgain]_vars

\* two recorded calls were made with the same initial position and arguments
SameCall(a, b) ==
    /\ a.initial_position = b.initial_position
    /\ a.stopping_criterion = b.stopping_criterion
    /\ a.distance_max = b.distance_max
    /\ a.penalize_blocks = b.penalize_blocks

\* C25: the outcome of a solve call (returned value, tree, terminal position,
\* path and so its length) depends only on the board, the initial position and
\* the arguments: any two calls made on the instance with the same initial
\* position and arguments have the same outcome, whatever calls were made in
\* between; the first call is made on a fresh instance.
C25_SolveDeterminism ==
    \A i, j \in DOMAIN observed :
        SameCall(observed[i], observed[j]) => observed[i] = observed[j]

C25_Witness ==
    /\ Len(observed) = 3
    /\ SameCall(observed[1], observed[3])
    /\ observed[2].initial_position # observed[1].initial_position
    /\ observed[1].result = "True"
    /\ Len(observed[1].path) > 2
    /\ observed[2].visited_tree # <<>>
    /\ observed[3] = observed[1]

--------------------------------------------------------------------------
(* Specification SpecCheck: set_holes, set_initial_position and              *)
(* check_initial_position called on an instance, from its construction       *)

\* the cells of the tiles given to set_initial_position: locations or None
CheckCells == {None, 5, 6, 9}

CheckTiles == {<<a, b>> : a, b \in CheckCells}

\* the dicts given to set_initial_position: no tile, one tile or two tiles
CheckKwargs ==
    {<<>>}
    \cup {<<[key |-> "rouge", tile |-> a]>> : a \in CheckTiles}
    \cup {<<[key |-> "rouge", tile |-> a], [key |-> "foret", tile |-> b]>> :
             a \in CheckTiles, b \in CheckTiles}

CheckHoleCalls == {<<6>>, <<9, 13>>}

\* lines 164-173
CheckInitialPosition ==
    /\ Callable
    /\ call' = [op |-> "check_initial_position",
                outcome |-> IF check_position(holes, Values(initial_position))
                            THEN "True" ELSE "False"]
    /\ kwargs' = <<>>
    /\ ret' = <<>>
    /\ UNCHANGED <<resulting_locs, holes, cp_vars, solve_vars, forced_passage, df_vars,
                   ht_vars, observed>>

NextCheck ==
    \/ \E locations \in CheckHoleCalls :
          Range(locations) \cap Range(holes) = {} /\ SetHoles(locations)
    \/ \E kw \in CheckKwargs : SetInitialPosition(kw)
    \/ CheckInitialPosition

SpecCheck == InitUse /\ [][NextCheck]_vars

--------------------------------------------------------------------------
(* Properties of the tree built by solve (SpecSolve) *)

\* C27: during a solve call an entry of visited_tree is never changed or
\* removed once inserted; a later occurrence of an inserted position at the
\* head of the queue is dropped (or delayed, or ends the search by
\* distance_max) without being tested, inserted or expanded; and every position
\* is inserted, hence expanded, at most once.
C27_FirstParentWins ==
    /\ [](solve_pc \in {"loop", "done"} =>
             /\ Len(settle_log) = Cardinality(Range(settle_log))
             /\ Range(settle_log) = DOMAIN visited_tree)
    /\ [][solve_pc = "loop" =>
             \A K \in DOMAIN visited_tree :
                 K \in DOMAIN visited_tree' /\ visited_tree'[K] = visited_tree[K]]_vars
    /\ [][(solve_pc = "loop" /\ to_explore # <<>>
              /\ Head(to_explore).pos \in DOMAIN visited_tree) =>
             /\ visited_tree' = visited_tree
             /\ last_pos' = last_pos
             /\ settle_log' = settle_log
             /\ ~found'
             /\ Len(to_explore') <= Len(to_explore)]_vars

\* the head of the queue is a position already inserted, reached again from
\* another father
C27_Witness ==
    /\ solve_pc = "loop"
    /\ Len(settle_log) > 2
    /\ to_explore # <<>>
    /\ Head(to_explore).pos \in DOMAIN visited_tree
    /\ Head(to_explore).waiting_time = 1
    /\ Head(to_explore).father_info # visited_tree[Head(to_explore).pos]

\* C28: at every point of a solve call the first key inserted is the initial
\* position and maps to the root marker, and every other key K maps to
\* (P, tix, move) where P was inserted before K and change_pos(P, tix, move)
\* returns K; hence every key is reachable from the initial position and the
\* fathers lead from it to the root marker in finitely many steps.
C28_ParentClosure ==
    solve_pc \in {"loop", "done"} =>
        /\ Range(settle_log) = DOMAIN visited_tree
        /\ settle_log # <<>> =>
              settle_log[1] = StartPos /\ visited_tree[StartPos] = StartFatherInfo
        /\ \A k \in 2..Len(settle_log) :
              LET K == settle_log[k]
                  f == visited_tree[K]
              IN /\ \E j \in 1..(k - 1) : settle_log[j] = f.pos
                 /\ change_pos(resulting_locs, f.pos, f.tix, f.move).pos = K
        /\ solve_pc = "done" =>
              DOMAIN visited_tree \subseteq Reachable(resulting_locs, StartPos)
        /\ has_terminal(last_pos) =>
              shortest_path(visited_tree, last_pos)[1].pos = StartPos

\* a tree with positions two moves away from the initial position, one of them
\* reached by a block move
C28_Witness ==
    /\ solve_pc = "loop"
    /\ Len(settle_log) > 3
    /\ \E K \in DOMAIN visited_tree :
          /\ K # StartPos
          /\ visited_tree[K].pos # StartPos
          /\ change_pos(resulting_locs, visited_tree[K].pos, visited_tree[K].tix,
                        visited_tree[K].move) = [pos |-> K, block_size |-> 2]

\* the place of a (tile index, direction) pair in the order of the rule: the
\* tile moved last first, then the other tiles in ascending order, and for
\* each tile the directions nw, ne, sw, se
DirectionRank(move) ==
    CASE move = "nw" -> 0 [] move = "ne" -> 1 [] move = "sw" -> 2 [] move = "se" -> 3

PairRank(prev_tix, tix, move) ==
    4 * (IF tix = prev_tix THEN 0 ELSE tix + 1) + DirectionRank(move)

\* the entries that the step appends to the queue
Appended == SubSeq(to_explore', Len(to_explore), Len(to_explore'))

\* C29: when a position is expanded, the queue receives its successors with
\* the moves of the tile moved to reach it first (tile 0 for the initial
\* position), then the moves of the other tiles in ascending order, the
\* directions of a tile in the order nw, ne, sw, se; every (tile, direction)
\* pair whose move succeeds to a position not yet inserted appears exactly once.
C29_SuccessorOrder ==
    [][(solve_pc = "loop" /\ settle_log' # settle_log /\ ~found') =>
          LET pos == last_pos'
              prev == visited_tree'[pos].tix
              new == Appended
          IN /\ Len(to_explore') >= Len(to_explore) - 1
             /\ SubSeq(to_explore', 1, Len(to_explore) - 1) = Tail(to_explore)
             /\ pos = StartPos => prev = 0
             /\ \A k \in DOMAIN new :
                   /\ new[k].father_info.pos = pos
                   /\ new[k].father_info.tix \in 0..(Len(pos) - 1)
                   /\ new[k].father_info.move \in {"nw", "ne", "sw", "se"}
                   /\ change_pos(resulting_locs, pos, new[k].father_info.tix,
                                 new[k].father_info.move)
                         = [pos |-> new[k].pos, block_size |-> new[k].waiting_time]
             /\ \A j, k \in DOMAIN new :
                   j < k => PairRank(prev, new[j].father_info.tix, new[j].father_info.move)
                              < PairRank(prev, new[k].father_info.tix, new[k].father_info.move)
             /\ \A tix \in 0..(Len(pos) - 1), move \in {"nw", "ne", "sw", "se"} :
                   LET r == change_pos(resulting_locs, pos, tix, move)
                   IN (r.pos # NonePos /\ r.pos \notin DOMAIN visited_tree') =>
                         \E k \in DOMAIN new :
                             /\ new[k].father_info.tix = tix
                             /\ new[k].father_info.move = move]_vars

\* the position expanded last was reached by a move of tile 1, and its
\* successors by tile 1 precede its successors by tile 0 in the queue
C29_Witness ==
    /\ solve_pc = "loop"
    /\ last_pos # NonePos
    /\ visited_tree[last_pos].tix = 1
    /\ \E i, j \in DOMAIN to_explore :
          /\ i < j
          /\ to_explore[i].father_info.pos = last_pos
          /\ to_explore[i].father_info.tix = 1
          /\ to_explore[j].father_info.pos = last_pos
          /\ to_explore[j].father_info.tix = 0

--------------------------------------------------------------------------
(* Properties of the depth-first traversal of an instance (SpecUse) *)

\* the traversal of Antivirus.hopcroft_tarjan has ended and has not returned yet
TraversalEnded == fp_pc = "dfs" /\ df_to_explore = <<>>

\* the children of v in the depth-first tree
TreeChildren(v) == {c \in DOMAIN df_tree : df_tree[c].father = v}

\* the neighbours of v that are neither its father nor its children in the tree
NonTreeNeighbours(v) == Range(df_tree[v].neighbors) \ TreeChildren(v)

\* the least element of a non-empty set of numbers
Least(S) == CHOOSE x \in S : \A y \in S : x <= y

\* min(depth(v), depth of every non-tree neighbour, lowpoint of every tree child)
LowpointRule(v) ==
    Least({df_tree[v].depth}
          \cup {df_tree[n].depth : n \in NonTreeNeighbours(v)}
          \cup {df_tree[c].lowpoint : c \in TreeChildren(v)})

\* C30: when the traversal of Antivirus.hopcroft_tarjan ends, the lowpoint of
\* every position v is min(depth(v), depth of every non-tree neighbour of v,
\* lowpoint of every tree child of v), and a position v other than the root is
\* marked as articulation point exactly when it has a tree child c with
\* depth(v) <= lowpoint(c).
C30_LowpointRule ==
    TraversalEnded =>
        \A v \in DOMAIN df_tree :
            /\ df_tree[v].lowpoint = LowpointRule(v)
            /\ v # Values(initial_position) =>
                  (v \in df_articulation_points <=>
                      \E c \in TreeChildren(v) : df_tree[v].depth <= df_tree[c].lowpoint)

--------------------------------------------------------------------------
(* Specification SpecCover: solve and compute_forced_passage_positions       *)
(* called on an instance whose holes are set, the initial position changed   *)
(* or not between the calls                                                  *)

\* the dicts given to set_initial_position
CoverKwargs ==
    {<<[key |-> "foret", tile |-> <<10, 11>>], [key |-> "rouge", tile |-> <<9, 5>>]>>,
     <<[key |-> "foret", tile |-> <<8, 1>>], [key |-> "rouge", tile |-> <<7, 3>>]>>,
     <<[key |-> "foret", tile |-> <<9, 10>>]>>}

\* the arguments of solve: the default target, a predicate that never holds
\* with and without distance_max
CoverSolveArgs ==
    {[stopping_criterion |-> DefaultCriterion, distance_max |-> None, penalize_blocks |-> TRUE],
     [stopping_criterion |-> NeverCriterion, distance_max |-> None, penalize_blocks |-> TRUE],
     [stopping_criterion |-> NeverCriterion, distance_max |-> None, penalize_blocks |-> FALSE],
     [stopping_criterion |-> NeverCriterion, distance_max |-> MaxDistance,
      penalize_blocks |-> FALSE]}

NextCover ==
    \/ \E kw \in CoverKwargs : SetInitialPosition(kw)
    \/ \E args \in CoverSolveArgs : SolveCall(args)
    \/ SolveEnter
    \/ SolveExhausted
    \/ SolveTooFar
    \/ SolveWait
    \/ SolveDrop
    \/ SolveFound
    \/ SolveExpand
    \/ SolveReturn
    \/ SolveRaise
    \/ ComputeForcedPassagePositions
    \/ HopcroftTarjanStep
    \/ ForcedPassageReturn

SpecCover == InitAgain /\ [][NextCover]_vars

\* the last solve call was made without stopping predicate and distance_max
UnboundedSolve == criterion_arg = NeverCriterion /\ distance_max = None

\* C31: the tree of the depth-first traversal of Antivirus.hopcroft_tarjan
\* holds the whole reachable component: its positions are those of the
\* visited map of a solve call made from the same initial position without
\* stopping predicate and distance_max; after any other solve call it holds
\* the visited map, and is not limited to it.
C31_TraversalCoverage ==
    (TraversalEnded /\ SolveResultCurrent) =>
        /\ DOMAIN df_tree = AllPositions
        /\ DOMAIN visited_tree \subseteq DOMAIN df_tree
        /\ UnboundedSolve => DOMAIN df_tree = DOMAIN visited_tree

\* a traversal has ended after an unbounded solve call on a two-tile position
\* whose component has block moves
C31_Witness ==
    /\ TraversalEnded
    /\ SolveResultCurrent
    /\ UnboundedSolve
    /\ Len(StartPos) = 2
    /\ Cardinality(DOMAIN df_tree) > 10
    /\ DOMAIN df_tree = DOMAIN visited_tree
    /\ \E K \in DOMAIN visited_tree :
          /\ K # StartPos
          /\ change_pos(resulting_locs, visited_tree[K].pos, visited_tree[K].tix,
                        visited_tree[K].move).block_size = 2

\* C33: after a solve call on the instance no forced passage result remains
\* stored: a result stored when solve returns was computed before that call,
\* so for an earlier solve call; forced_passage is unset until
\* compute_forced_passage_positions is called for the most recent solve call.
C33_NoStaleForcedPassage ==
    (call.op = "solve" /\ call.outcome \in {"True", "False"}) => ~forced_passage.set

--------------------------------------------------------------------------
(* Specification SpecTerm: one call of change_pos or one call of solve, run  *)
(* to its end; the interpreter runs a call without yielding, so that a step  *)
(* is taken whenever one is possible                                         *)

\* the initial positions of the solve calls
TermPositions ==
    {<<[key |-> "foret", tile |-> <<10, 11>>], [key |-> "rouge", tile |-> <<9, 5>>]>>,
     <<[key |-> "rouge", tile |-> <<9, 5>>], [key |-> "foret", tile |-> <<1, 2>>]>>}

\* a call of change_pos on any input of SpecMove, or a call of solve on one of
\* the initial positions, with any criterion, with and without penalize_blocks,
\* without distance_max or with the largest one
InitTerm ==
    \/ InitMove
    \/ /\ InitSolve
       /\ initial_position \in TermPositions
       /\ distance_max \in {None, MaxDistance}

NextTerm == NextMove \/ NextSolve

SpecTerm == InitTerm /\ [][NextTerm]_vars /\ WF_vars(NextTerm)

\* the call of change_pos or of solve has returned or raised
CallEnded == cp_pc = "done" \/ solve_pc \in {"done", "raised"}

\* the weight of a queue entry when it was created: the size of the block of
\* its move, 1 for the initial position
EntryWeight(e) ==
    IF e.father_info = StartFatherInfo THEN 1
    ELSE change_pos(resulting_locs, e.father_info.pos, e.father_info.tix,
                    e.father_info.move).block_size

\* the step reinserts the popped entry at the end of the queue
Reinserted ==
    /\ solve_pc = "loop" /\ solve_pc' = "loop"
    /\ to_explore # <<>>
    /\ Len(to_explore') = Len(to_explore)
    /\ visited_tree' = visited_tree

\* C32: every call of change_pos and every call of solve ends (solve returns
\* found, distance_max exceeded or queue empty, or raises for the default
\* target), with or without penalize_blocks; a queue entry of weight N holds
\* a waiting time between 1 and N, and each reinsertion needs a waiting time
\* above 1 and decreases it by one, so that the entry is reinserted at most
\* N - 1 times.
C32_Termination ==
    /\ <>CallEnded
    /\ [](\A k \in DOMAIN to_explore :
             /\ to_explore[k].waiting_time >= 1
             /\ to_explore[k].waiting_time <= EntryWeight(to_explore[k]))
    /\ [][Reinserted =>
             /\ penalize_blocks
             /\ Head(to_explore).waiting_time > 1
             /\ to_explore' = Append(Tail(to_explore),
                   [Head(to_explore) EXCEPT !.waiting_time = @ - 1, !.distance = @ + 1])]_vars

\* a solve call with penalize_blocks has emptied its queue after inserting a
\* position reached by a block move, whose entry was reinserted once
C32_Witness ==
    /\ solve_pc = "done"
    /\ penalize_blocks
    /\ ~found
    /\ distance_max = None
    /\ to_explore = <<>>
    /\ Cardinality(DOMAIN visited_tree) > 10
    /\ \E K \in DOMAIN visited_tree :
          /\ K # StartPos
          /\ change_pos(resulting_locs, visited_tree[K].pos, visited_tree[K].tix,
                        visited_tree[K].move).block_size = 2

====
